---------------------------- MODULE Spec2Model ----------------------------
(***************************************************************************)
(* A model of the DNA storage codec of dds-explorary-encoder:              *)
(*   src/utils/functions/converts.py     bit, trit and Goldman packers     *)
(*   src/utils/functions/crc.py          CRC-8                             *)
(*   src/utils/functions/constraints.py  GC / run-length predicate         *)
(*   src/utils/functions/consensus.py    column-wise majority vote         *)
(*   src/utils/dna_storage.py            DNAStorage: prefix framer, file   *)
(*                                       header, encode_file,              *)
(*                                       decode_sequences                  *)
(* and of the circuit breaker of its pipeline:                             *)
(*   src/dags/dna_oligos_pipeline.py     CircuitBreaker                    *)
(*                                                                         *)
(* Conventions.  A Python str of bases is a sequence of "A", "C", "G",     *)
(* "T"; a Python str of '0'/'1' is a sequence of 0 and 1; bytes is a       *)
(* sequence of integers 0..255.  A function that may raise returns a       *)
(* record [ok |-> BOOLEAN, val |-> ...]; ok = FALSE is the raised          *)
(* exception.  Python's loops are written as balanced folds (Fold-style    *)
(* operators splitting the index range in two), which compute what the     *)
(* sequential loop computes while keeping the evaluation depth             *)
(* logarithmic.  Integers wider than 31 bits are kept as pairs of 16-bit   *)
(* halves <<hi, lo>>.                                                      *)
(***************************************************************************)
EXTENDS Integers, Sequences, FiniteSets, TLC

VARIABLES
    codec,        \* the DNAStorage object: chunk_size, redundancy, error_correction, segment_nt
    file,         \* the bytes of the file given to encode_file
    oligos,       \* the list returned by encode_file
    received,     \* the list given to decode_sequences
    channel,      \* what was done to sequences to obtain reads
    result,       \* the pair returned by decode_sequences
    pc,           \* codec run: ("args" ->) "new" -> "encoded" -> "decoded", or "rejected", "raised"
    pfx_pc,       \* harness of one function (prefix, Goldman code, header, re-seed,
                  \* consensus): where the harness stands, "args" -> "created" -> ...;
                  \* circuit breaker: the last call made
    pfx_in,       \* the arguments drawn for the function under test; the CircuitBreaker object
    pfx_out,      \* the value returned by the first call (_create_prefix, ...)
    pfx_info      \* the value returned by the second call (_parse_prefix, ...); the clock

codec_vars == <<codec, file, oligos, received, channel, result, pc>>
prefix_vars == <<pfx_pc, pfx_in, pfx_out, pfx_info>>
vars == <<codec, file, oligos, received, channel, result, pc, pfx_pc, pfx_in, pfx_out, pfx_info>>

----------------------------------------------------------------------------
(* Python's integer operators ^ and & on non-negative integers.            *)

XorTab ==
    << <<0,1,2,3,4,5,6,7,8,9,10,11,12,13,14,15>>,
       <<1,0,3,2,5,4,7,6,9,8,11,10,13,12,15,14>>,
       <<2,3,0,1,6,7,4,5,10,11,8,9,14,15,12,13>>,
       <<3,2,1,0,7,6,5,4,11,10,9,8,15,14,13,12>>,
       <<4,5,6,7,0,1,2,3,12,13,14,15,8,9,10,11>>,
       <<5,4,7,6,1,0,3,2,13,12,15,14,9,8,11,10>>,
       <<6,7,4,5,2,3,0,1,14,15,12,13,10,11,8,9>>,
       <<7,6,5,4,3,2,1,0,15,14,13,12,11,10,9,8>>,
       <<8,9,10,11,12,13,14,15,0,1,2,3,4,5,6,7>>,
       <<9,8,11,10,13,12,15,14,1,0,3,2,5,4,7,6>>,
       <<10,11,8,9,14,15,12,13,2,3,0,1,6,7,4,5>>,
       <<11,10,9,8,15,14,13,12,3,2,1,0,7,6,5,4>>,
       <<12,13,14,15,8,9,10,11,4,5,6,7,0,1,2,3>>,
       <<13,12,15,14,9,8,11,10,5,4,7,6,1,0,3,2>>,
       <<14,15,12,13,10,11,8,9,6,7,4,5,2,3,0,1>>,
       <<15,14,13,12,11,10,9,8,7,6,5,4,3,2,1,0>> >>

AndTab ==
    << <<0,0,0,0,0,0,0,0,0,0,0,0,0,0,0,0>>,
       <<0,1,0,1,0,1,0,1,0,1,0,1,0,1,0,1>>,
       <<0,0,2,2,0,0,2,2,0,0,2,2,0,0,2,2>>,
       <<0,1,2,3,0,1,2,3,0,1,2,3,0,1,2,3>>,
       <<0,0,0,0,4,4,4,4,0,0,0,0,4,4,4,4>>,
       <<0,1,0,1,4,5,4,5,0,1,0,1,4,5,4,5>>,
       <<0,0,2,2,4,4,6,6,0,0,2,2,4,4,6,6>>,
       <<0,1,2,3,4,5,6,7,0,1,2,3,4,5,6,7>>,
       <<0,0,0,0,0,0,0,0,8,8,8,8,8,8,8,8>>,
       <<0,1,0,1,0,1,0,1,8,9,8,9,8,9,8,9>>,
       <<0,0,2,2,0,0,2,2,8,8,10,10,8,8,10,10>>,
       <<0,1,2,3,0,1,2,3,8,9,10,11,8,9,10,11>>,
       <<0,0,0,0,4,4,4,4,8,8,8,8,12,12,12,12>>,
       <<0,1,0,1,4,5,4,5,8,9,8,9,12,13,12,13>>,
       <<0,0,2,2,4,4,6,6,8,8,10,10,12,12,14,14>>,
       <<0,1,2,3,4,5,6,7,8,9,10,11,12,13,14,15>> >>

RECURSIVE BitXor(_, _)
BitXor(a, b) ==
    IF a = 0 THEN b
    ELSE IF b = 0 THEN a
    ELSE XorTab[(a % 16) + 1][(b % 16) + 1] + 16 * BitXor(a \div 16, b \div 16)

RECURSIVE BitAnd(_, _)
BitAnd(a, b) ==
    IF a = 0 \/ b = 0 THEN 0
    ELSE AndTab[(a % 16) + 1][(b % 16) + 1] + 16 * BitAnd(a \div 16, b \div 16)

(* A comprehension evaluated once into a list.                             *)
List(f) == f \o <<>>

(* ''.join(parts) / b''.join(parts): the concatenation of a list of lists. *)
RECURSIVE JoinRange(_, _, _)
JoinRange(parts, lo, hi) ==
    IF lo > hi THEN <<>>
    ELSE IF lo = hi THEN parts[lo]
    ELSE LET mid == (lo + hi) \div 2
         IN  JoinRange(parts, lo, mid) \o JoinRange(parts, mid + 1, hi)

Join(parts) == JoinRange(parts, 1, Len(parts))

(* The outcome of a call that raised an exception.                        *)
Raised == [ok |-> FALSE, val |-> <<>>]

(* s[i:j] of Python for 0 <= i, with j clipped to len(s).                  *)
Slice(s, i, j) == SubSeq(s, i + 1, IF j < Len(s) THEN j ELSE Len(s))

----------------------------------------------------------------------------
(* src/utils/functions/converts.py                                         *)

(* Number of binary digits of x >= 0 (1 for x = 0), as format(x, 'b').     *)
RECURSIVE BitLength(_)
BitLength(x) == IF x < 2 THEN 1 ELSE 1 + BitLength(x \div 2)

(* bytes_to_bits(x, nbits) = format(x, '0{nbits}b'): the binary digits of  *)
(* x, most significant first, left-padded with zeros to nbits digits; a    *)
(* value that does not fit keeps all its digits (the string gets longer).  *)
bytes_to_bits(x, nbits) ==
    LET n == IF BitLength(x) > nbits THEN BitLength(x) ELSE nbits
    IN  List([i \in 1..n |-> (x \div (2 ^ (n - i))) % 2])

(* int(bits, 2) for a non-empty string of binary digits.                   *)
RECURSIVE BitsToInt(_, _, _)
BitsToInt(bits, lo, hi) ==
    IF lo > hi THEN 0
    ELSE IF lo = hi THEN bits[lo]
    ELSE LET mid == (lo + hi) \div 2
         IN  BitsToInt(bits, lo, mid) * (2 ^ (hi - mid)) + BitsToInt(bits, mid + 1, hi)

(* Fault variant of bits_to_bytes: the padding zeros are put on the left.  *)
BitsToBytesLeftPadded(bits) ==
    IF Len(bits) = 0 THEN <<>>
    ELSE LET pad == (8 - (Len(bits) % 8)) % 8
             bits_padded == List([i \in 1..pad |-> 0]) \o bits
         IN  List([k \in 1..(Len(bits_padded) \div 8) |->
                      BitsToInt(bits_padded, 8 * (k - 1) + 1, 8 * k)])

(* bits_to_bytes(bits): pad with zeros on the right to a multiple of 8,    *)
(* then pack 8 digits per byte, most significant first.                    *)
bits_to_bytes(bits) ==
    IF Len(bits) = 0 THEN <<>>
    ELSE LET pad == (8 - (Len(bits) % 8)) % 8
             bits_padded == bits \o List([i \in 1..pad |-> 0])
         IN  List([k \in 1..(Len(bits_padded) \div 8) |->
                      BitsToInt(bits_padded, 8 * (k - 1) + 1, 8 * k)])

(* Fault variant of GOLDMAN_ENCODE: the row of A repeats A for the trit 0.  *)
GoldmanEncodeRepeatingA ==
    [A |-> [t \in 0..2 |-> <<"A", "G", "T">>[t + 1]],
     C |-> [t \in 0..2 |-> <<"G", "T", "A">>[t + 1]],
     G |-> [t \in 0..2 |-> <<"T", "A", "C">>[t + 1]],
     T |-> [t \in 0..2 |-> <<"A", "C", "G">>[t + 1]]]

(* GOLDMAN_ENCODE[last][trit]; the trit indexes the row from 0.            *)
GOLDMAN_ENCODE ==
    [A |-> [t \in 0..2 |-> <<"C", "G", "T">>[t + 1]],
     C |-> [t \in 0..2 |-> <<"G", "T", "A">>[t + 1]],
     G |-> [t \in 0..2 |-> <<"T", "A", "C">>[t + 1]],
     T |-> [t \in 0..2 |-> <<"A", "C", "G">>[t + 1]]]

(* GOLDMAN_DECODE[last]: the inverse of the row GOLDMAN_ENCODE[last], a    *)
(* dict whose keys are the three bases other than last.                    *)
GoldmanDecodeKeys(last) ==
    IF last \in DOMAIN GOLDMAN_ENCODE
    THEN {GOLDMAN_ENCODE[last][t] : t \in 0..2}
    ELSE {}

GOLDMAN_DECODE(last, nuc) == CHOOSE val \in 0..2 : GOLDMAN_ENCODE[last][val] = nuc

(* Fault variant of bytes_to_trits: most significant digit first.          *)
BytesToTritsMsbFirst(data) ==
    List([i \in 1..(6 * Len(data)) |->
             (data[((i - 1) \div 6) + 1] \div (3 ^ (5 - ((i - 1) % 6)))) % 3])

(* bytes_to_trits: six base-3 digits per byte, least significant first.    *)
bytes_to_trits(data) ==
    List([i \in 1..(6 * Len(data)) |->
             (data[((i - 1) \div 6) + 1] \div (3 ^ ((i - 1) % 6))) % 3])

(* trits_to_bytes: groups of six trits (an incomplete tail is ignored),    *)
(* weights 3^0..3^5; a group worth more than 255 raises ValueError.        *)
TritPack(trits, k) ==
    trits[6 * k - 5] + 3 * trits[6 * k - 4] + 9 * trits[6 * k - 3]
    + 27 * trits[6 * k - 2] + 81 * trits[6 * k - 1] + 243 * trits[6 * k]

trits_to_bytes(trits) ==
    LET n == Len(trits) \div 6
        out == List([k \in 1..n |-> TritPack(trits, k)])
    IN  IF \E k \in 1..n : ~(0 <= out[k] /\ out[k] <= 255) THEN Raised
        ELSE [ok |-> TRUE, val |-> out]

(* trits_to_dna: each base is GOLDMAN_ENCODE[last][t], last being the base *)
(* emitted just before (start for the first one).                          *)
RECURSIVE TritsToDnaRange(_, _, _, _)
TritsToDnaRange(trits, last, lo, hi) ==
    IF lo > hi THEN <<>>
    ELSE IF lo = hi THEN <<GOLDMAN_ENCODE[last][trits[lo]]>>
    ELSE LET mid == (lo + hi) \div 2
             left == TritsToDnaRange(trits, last, lo, mid)
         IN  left \o TritsToDnaRange(trits, left[Len(left)], mid + 1, hi)

trits_to_dna(trits, start) == TritsToDnaRange(trits, start, 1, Len(trits))

(* dna_to_trits: the loop sets last to the base just read, so the trit at  *)
(* position i is decoded against the base at i - 1 (start for i = 1); a    *)
(* base that is not a key of GOLDMAN_DECODE[last] raises ValueError.       *)
DnaLast(dna, start, i) == IF i = 1 THEN start ELSE dna[i - 1]

dna_to_trits(dna, start) ==
    IF \E i \in 1..Len(dna) : dna[i] \notin GoldmanDecodeKeys(DnaLast(dna, start, i))
    THEN Raised
    ELSE [ok |-> TRUE,
          val |-> List([i \in 1..Len(dna) |-> GOLDMAN_DECODE(DnaLast(dna, start, i), dna[i])])]

bytes_to_dna_goldman(data, start) == trits_to_dna(bytes_to_trits(data), start)

dna_to_bytes_goldman(dna, start) ==
    LET trits == dna_to_trits(dna, start)
    IN  IF ~trits.ok THEN Raised ELSE trits_to_bytes(trits.val)

----------------------------------------------------------------------------
(* src/utils/functions/constraints.py                                      *)

(* Number of G and C of seq: the numerator of gc_content.                  *)
GcCount(seq) == Cardinality({i \in 1..Len(seq) : seq[i] \in {"G", "C"}})

(* max_run_length: the longest run of identical consecutive bases.  The    *)
(* range lo..hi is summarised by its longest run m, the run at its left    *)
(* end pre and the run at its right end suf.                               *)
RECURSIVE RunsRange(_, _, _)
RunsRange(seq, lo, hi) ==
    IF lo = hi THEN [m |-> 1, pre |-> 1, suf |-> 1]
    ELSE LET mid == (lo + hi) \div 2
             l == RunsRange(seq, lo, mid)
             r == RunsRange(seq, mid + 1, hi)
             joined == seq[mid] = seq[mid + 1]
             across == IF joined THEN l.suf + r.pre ELSE 0
             best == IF l.m >= r.m THEN l.m ELSE r.m
         IN  [m |-> IF across > best THEN across ELSE best,
              pre |-> IF joined /\ l.pre = mid - lo + 1 THEN l.pre + r.pre ELSE l.pre,
              suf |-> IF joined /\ r.suf = hi - mid THEN r.suf + l.suf ELSE r.suf]

max_run_length(seq) == IF Len(seq) = 0 THEN 0 ELSE RunsRange(seq, 1, Len(seq)).m

MaxRunDefault == 3
GcMinPercent == 40
GcMaxPercent == 60

(* passes_constraints with its default arguments.  gc_min <= gc/len <=     *)
(* gc_max on floats is the same as the comparison of the exact fractions:  *)
(* 2/5 and 3/5 round to the literals 0.40 and 0.60, and no other fraction  *)
(* of these sizes is within a rounding error of them.                      *)
passes_constraints(seq) ==
    IF Len(seq) = 0 THEN FALSE
    ELSE IF max_run_length(seq) > MaxRunDefault THEN FALSE
    ELSE /\ GcMinPercent * Len(seq) <= 100 * GcCount(seq)
         /\ 100 * GcCount(seq) <= GcMaxPercent * Len(seq)

----------------------------------------------------------------------------
(* src/utils/functions/crc.py                                              *)

(* One pass of the inner loop of crc8: shift left, xor poly on carry.      *)
Crc8Shift(c, poly) ==
    IF BitAnd(c, 128) # 0 THEN BitXor((c * 2) % 256, poly) ELSE (c * 2) % 256

Crc8Byte(c, b, poly) ==
    LET c0 == BitXor(c, b)
        c1 == Crc8Shift(c0, poly)
        c2 == Crc8Shift(c1, poly)
        c3 == Crc8Shift(c2, poly)
        c4 == Crc8Shift(c3, poly)
        c5 == Crc8Shift(c4, poly)
        c6 == Crc8Shift(c5, poly)
        c7 == Crc8Shift(c6, poly)
    IN  Crc8Shift(c7, poly)

RECURSIVE Crc8Fold(_, _, _, _, _)
Crc8Fold(c, bytes, lo, hi, poly) ==
    IF lo > hi THEN c
    ELSE IF lo = hi THEN Crc8Byte(c, bytes[lo], poly)
    ELSE LET mid == (lo + hi) \div 2
             left == Crc8Fold(c, bytes, lo, mid, poly)
         IN  IF left = left THEN Crc8Fold(left, bytes, mid + 1, hi, poly) ELSE left

Crc8Poly == 7
Crc8Init == 0

crc8(bytes) == BitAnd(Crc8Fold(Crc8Init, bytes, 1, Len(bytes), Crc8Poly), 255)

----------------------------------------------------------------------------
(* zlib.crc32: the standard reflected CRC-32 (polynomial 0xEDB88320, init  *)
(* and xor-out 0xFFFFFFFF), on words <<hi, lo>> of two 16-bit halves.      *)

Xor32(a, b) == <<BitXor(a[1], b[1]), BitXor(a[2], b[2])>>
And32(a, b) == <<BitAnd(a[1], b[1]), BitAnd(a[2], b[2])>>
Not32(a) == <<65535 - a[1], 65535 - a[2]>>
Add32(a, b) ==
    LET lo == a[2] + b[2]
    IN  <<(a[1] + b[1] + (lo \div 65536)) % 65536, lo % 65536>>

(* x >> n for 0 <= n < 32.                                                 *)
ShR32(x, n) ==
    IF n >= 16 THEN <<0, x[1] \div (2 ^ (n - 16))>>
    ELSE <<x[1] \div (2 ^ n), (x[2] \div (2 ^ n)) + (x[1] % (2 ^ n)) * (2 ^ (16 - n))>>

(* x rotated right by n, 0 <= n < 32.                                      *)
RotR32(x, n) ==
    LET y == IF n >= 16 THEN <<x[2], x[1]>> ELSE x
        k == n % 16
    IN  <<(y[1] \div (2 ^ k)) + (y[2] % (2 ^ k)) * (2 ^ (16 - k)),
          (y[2] \div (2 ^ k)) + (y[1] % (2 ^ k)) * (2 ^ (16 - k))>>

Crc32Poly == <<60856, 33568>>

Crc32Shift(c) == IF c[2] % 2 = 1 THEN Xor32(ShR32(c, 1), Crc32Poly) ELSE ShR32(c, 1)

Crc32Byte(c, b) ==
    LET c0 == <<c[1], BitXor(c[2], b)>>
        c1 == Crc32Shift(c0)
        c2 == Crc32Shift(c1)
        c3 == Crc32Shift(c2)
        c4 == Crc32Shift(c3)
        c5 == Crc32Shift(c4)
        c6 == Crc32Shift(c5)
        c7 == Crc32Shift(c6)
    IN  Crc32Shift(c7)

RECURSIVE Crc32Fold(_, _, _, _)
Crc32Fold(c, bytes, lo, hi) ==
    IF lo > hi THEN c
    ELSE IF lo = hi THEN Crc32Byte(c, bytes[lo])
    ELSE LET mid == (lo + hi) \div 2
             left == Crc32Fold(c, bytes, lo, mid)
         IN  IF left = left THEN Crc32Fold(left, bytes, mid + 1, hi) ELSE left

(* zlib.crc32(bytes) & 0xFFFFFFFF                                          *)
crc32(bytes) == Not32(Crc32Fold(<<65535, 65535>>, bytes, 1, Len(bytes)))

(* w.to_bytes(4, 'little') and int.from_bytes(b, 'little') of 32-bit words *)
Word32ToBytesLE(w) == <<w[2] % 256, w[2] \div 256, w[1] % 256, w[1] \div 256>>
Word32FromBytesLE(b) == <<b[3] + 256 * b[4], b[1] + 256 * b[2]>>
Word32ToBytesBE(w) == <<w[1] \div 256, w[1] % 256, w[2] \div 256, w[2] % 256>>
Word32FromBytesBE(b, k) == <<256 * b[k] + b[k + 1], 256 * b[k + 2] + b[k + 3]>>

----------------------------------------------------------------------------
(* hashlib.sha256: SHA-256 of FIPS 180-4.                                  *)

Sha256K ==
    << <<17034,12184>>, <<28983,17553>>, <<46528,64463>>, <<59829,56229>>,
       <<14678,49755>>, <<23025,4593>>, <<37439,33444>>, <<43804,24277>>,
       <<55303,43672>>, <<4739,23297>>, <<9265,34238>>, <<21772,32195>>,
       <<29374,23924>>, <<32990,45566>>, <<39900,1703>>, <<49563,61812>>,
       <<58523,27073>>, <<61374,18310>>, <<4033,40390>>, <<9228,41420>>,
       <<11753,11375>>, <<19060,33962>>, <<23728,43484>>, <<30457,35034>>,
       <<38974,20818>>, <<43057,50797>>, <<45059,10184>>, <<48985,32711>>,
       <<50912,3059>>, <<54695,37191>>, <<1738,25425>>, <<5161,10599>>,
       <<10167,2693>>, <<11803,8504>>, <<19756,28156>>, <<21304,3347>>,
       <<25866,29524>>, <<30314,2747>>, <<33218,51502>>, <<37490,11397>>,
       <<41663,59553>>, <<43034,26187>>, <<49739,35696>>, <<51052,20899>>,
       <<53650,59417>>, <<54937,1572>>, <<62478,13701>>, <<4202,41072>>,
       <<6564,49430>>, <<7735,27656>>, <<10056,30540>>, <<13488,48309>>,
       <<14620,3251>>, <<20184,43594>>, <<23452,51791>>, <<26670,28659>>,
       <<29839,33518>>, <<30885,25455>>, <<33992,30740>>, <<36039,520>>,
       <<37054,65530>>, <<42064,27883>>, <<48889,41975>>, <<50801,30962>> >>

Sha256H0 ==
    << <<27145,58983>>, <<47975,44677>>, <<15470,62322>>, <<42319,62778>>,
       <<20750,21119>>, <<39685,26764>>, <<8067,55723>>, <<23520,52505>> >>

Sha256Ch(e, f, g) == Xor32(And32(e, f), And32(Not32(e), g))
Sha256Maj(a, b, c) == Xor32(Xor32(And32(a, b), And32(a, c)), And32(b, c))
Sha256BigSigma0(x) == Xor32(Xor32(RotR32(x, 2), RotR32(x, 13)), RotR32(x, 22))
Sha256BigSigma1(x) == Xor32(Xor32(RotR32(x, 6), RotR32(x, 11)), RotR32(x, 25))
Sha256SmallSigma0(x) == Xor32(Xor32(RotR32(x, 7), RotR32(x, 18)), ShR32(x, 3))
Sha256SmallSigma1(x) == Xor32(Xor32(RotR32(x, 17), RotR32(x, 19)), ShR32(x, 10))

(* The message padded to a multiple of 64 bytes: 0x80, zeros, and the bit  *)
(* length as a 64-bit big-endian integer (messages below 2^28 bytes).      *)
Sha256Pad(msg) ==
    LET n == Len(msg)
        zeros == (119 - (n % 64)) % 64
        bits == 8 * n
    IN  msg \o <<128>> \o List([i \in 1..zeros |-> 0])
        \o <<0, 0, 0, 0, bits \div 16777216, (bits \div 65536) % 256,
             (bits \div 256) % 256, bits % 256>>

(* The message schedule W[1..64] of the block starting at byte off + 1.    *)
RECURSIVE Sha256Schedule(_, _, _)
Sha256Schedule(w, lo, hi) ==
    IF lo > hi THEN w
    ELSE IF lo = hi
    THEN Append(w, Add32(Add32(Sha256SmallSigma1(w[lo - 2]), w[lo - 7]),
                         Add32(Sha256SmallSigma0(w[lo - 15]), w[lo - 16])))
    ELSE LET mid == (lo + hi) \div 2
             left == Sha256Schedule(w, lo, mid)
         IN  IF Len(left) = mid THEN Sha256Schedule(left, mid + 1, hi) ELSE left

Sha256Round(s, k, w) ==
    LET t1 == Add32(Add32(Add32(s[8], Sha256BigSigma1(s[5])), Sha256Ch(s[5], s[6], s[7])),
                    Add32(k, w))
        t2 == Add32(Sha256BigSigma0(s[1]), Sha256Maj(s[1], s[2], s[3]))
    IN  <<Add32(t1, t2), s[1], s[2], s[3], Add32(s[4], t1), s[5], s[6], s[7]>>

RECURSIVE Sha256Rounds(_, _, _, _)
Sha256Rounds(s, w, lo, hi) ==
    IF lo = hi THEN Sha256Round(s, Sha256K[lo], w[lo])
    ELSE LET mid == (lo + hi) \div 2
             left == Sha256Rounds(s, w, lo, mid)
         IN  IF left = left THEN Sha256Rounds(left, w, mid + 1, hi) ELSE left

Sha256Block(h, padded, off) ==
    LET w16 == List([i \in 1..16 |-> Word32FromBytesBE(padded, off + 4 * i - 3)])
        w == Sha256Schedule(w16, 17, 64)
        s == Sha256Rounds(h, w, 1, 64)
    IN  List([i \in 1..8 |-> Add32(h[i], s[i])])

RECURSIVE Sha256Blocks(_, _, _, _)
Sha256Blocks(h, padded, lo, hi) ==
    IF lo = hi THEN Sha256Block(h, padded, 64 * (lo - 1))
    ELSE LET mid == (lo + hi) \div 2
             left == Sha256Blocks(h, padded, lo, mid)
         IN  IF left = left THEN Sha256Blocks(left, padded, mid + 1, hi) ELSE left

(* hashlib.sha256(data).digest(): 32 bytes.                                *)
sha256(data) ==
    LET padded == Sha256Pad(data)
        h == Sha256Blocks(Sha256H0, padded, 1, Len(padded) \div 64)
    IN  Join(List([i \in 1..8 |-> Word32ToBytesBE(h[i])]))

----------------------------------------------------------------------------
(* reedsolo.RSCodec(nsym): systematic Reed-Solomon over GF(2^8), primitive *)
(* polynomial 0x11D, generator 2, first consecutive root 0.                *)

GfExp ==
    << 1,2,4,8,16,32,64,128,29,58,116,232,205,135,19,38,
       76,152,45,90,180,117,234,201,143,3,6,12,24,48,96,192,
       157,39,78,156,37,74,148,53,106,212,181,119,238,193,159,35,
       70,140,5,10,20,40,80,160,93,186,105,210,185,111,222,161,
       95,190,97,194,153,47,94,188,101,202,137,15,30,60,120,240,
       253,231,211,187,107,214,177,127,254,225,223,163,91,182,113,226,
       217,175,67,134,17,34,68,136,13,26,52,104,208,189,103,206,
       129,31,62,124,248,237,199,147,59,118,236,197,151,51,102,204,
       133,23,46,92,184,109,218,169,79,158,33,66,132,21,42,84,
       168,77,154,41,82,164,85,170,73,146,57,114,228,213,183,115,
       230,209,191,99,198,145,63,126,252,229,215,179,123,246,241,255,
       227,219,171,75,150,49,98,196,149,55,110,220,165,87,174,65,
       130,25,50,100,200,141,7,14,28,56,112,224,221,167,83,166,
       81,162,89,178,121,242,249,239,195,155,43,86,172,69,138,9,
       18,36,72,144,61,122,244,245,247,243,251,235,203,139,11,22,
       44,88,176,125,250,233,207,131,27,54,108,216,173,71,142 >>

GfLog ==
    << 0,1,25,2,50,26,198,3,223,51,238,27,104,199,75,4,
       100,224,14,52,141,239,129,28,193,105,248,200,8,76,113,5,
       138,101,47,225,36,15,33,53,147,142,218,240,18,130,69,29,
       181,194,125,106,39,249,185,201,154,9,120,77,228,114,166,6,
       191,139,98,102,221,48,253,226,152,37,179,16,145,34,136,54,
       208,148,206,143,150,219,189,241,210,19,92,131,56,70,64,30,
       66,182,163,195,72,126,110,107,58,40,84,250,133,186,61,202,
       94,155,159,10,21,121,43,78,212,229,172,115,243,167,87,7,
       112,192,247,140,128,99,13,103,74,222,237,49,197,254,24,227,
       165,153,119,38,184,180,124,17,68,146,217,35,32,137,46,55,
       63,209,91,149,188,207,205,144,135,151,178,220,252,190,97,242,
       86,211,171,20,42,93,158,132,60,57,83,71,109,65,162,31,
       45,67,216,183,123,164,118,196,23,73,236,127,12,111,246,108,
       161,59,82,41,157,85,170,251,96,134,177,187,204,62,90,203,
       89,95,176,156,169,160,81,11,245,22,235,122,117,44,215,79,
       174,213,233,230,231,173,232,116,214,244,234,168,80,88,175 >>

GfMul(a, b) ==
    IF a = 0 \/ b = 0 THEN 0 ELSE GfExp[((GfLog[a] + GfLog[b]) % 255) + 1]

(* alpha^e for e >= 0 *)
GfPow2(e) == GfExp[(e % 255) + 1]

RECURSIVE XorSum(_, _, _)
XorSum(xs, lo, hi) ==
    IF lo > hi THEN 0
    ELSE IF lo = hi THEN xs[lo]
    ELSE LET mid == (lo + hi) \div 2
         IN  BitXor(XorSum(xs, lo, mid), XorSum(xs, mid + 1, hi))

(* The value of the polynomial cw (highest degree first) at alpha^i.       *)
RsEval(cw, i) ==
    LET n == Len(cw)
    IN  XorSum(List([j \in 1..n |-> GfMul(cw[j], GfPow2(i * (n - j)))]), 1, n)

RsSyndromes(cw, nsym) == List([i \in 1..nsym |-> RsEval(cw, i - 1)])

(* The generator polynomial prod_{i < nsym} (x + alpha^i), highest degree  *)
(* first: nsym + 1 coefficients, the first being 1.                        *)
(* g * (x + alpha^(n - 1)) for g of degree n - 1.                          *)
RsGeneratorStep(g, n) ==
    List([j \in 1..(n + 1) |->
             BitXor(IF j <= n THEN g[j] ELSE 0,
                    IF j >= 2 THEN GfMul(g[j - 1], GfPow2(n - 1)) ELSE 0)])

RECURSIVE RsGeneratorFold(_, _, _)
RsGeneratorFold(g, lo, hi) ==
    IF lo > hi THEN g
    ELSE IF lo = hi THEN RsGeneratorStep(g, lo)
    ELSE LET mid == (lo + hi) \div 2
             left == RsGeneratorFold(g, lo, mid)
         IN  IF left = left THEN RsGeneratorFold(left, mid + 1, hi) ELSE left

RsGenerator(nsym) == RsGeneratorFold(<<1>>, 1, nsym)

(* One step of the division of msg * x^nsym by the generator: the          *)
(* remainder register after one more message byte.                         *)
RsDivStep(reg, m, gen) ==
    LET nsym == Len(reg)
        fb == BitXor(m, reg[1])
    IN  List([j \in 1..nsym |->
                 BitXor(IF j < nsym THEN reg[j + 1] ELSE 0, GfMul(gen[j + 1], fb))])

RECURSIVE RsDivFold(_, _, _, _, _)
RsDivFold(reg, msg, gen, lo, hi) ==
    IF lo > hi THEN reg
    ELSE IF lo = hi THEN RsDivStep(reg, msg[lo], gen)
    ELSE LET mid == (lo + hi) \div 2
             left == RsDivFold(reg, msg, gen, lo, mid)
         IN  IF left = left THEN RsDivFold(left, msg, gen, mid + 1, hi) ELSE left

(* RSCodec(nsym).encode(msg): msg followed by its nsym parity bytes.       *)
RsEncode(msg, nsym) ==
    IF nsym = 0 THEN msg
    ELSE msg \o RsDivFold(List([j \in 1..nsym |-> 0]), msg, RsGenerator(nsym), 1, Len(msg))

(* RSCodec(nsym).decode(cw)[0] as a bounded-distance decoder: the message  *)
(* part of the one codeword within nsym \div 2 symbol errors of cw, an     *)
(* exception when there is none.  Exact for nsym <= 3 (at most one error   *)
(* is correctable, and its value is the syndrome S0): RsNsymValues.        *)
RsFlip(cw, p, e) == [cw EXCEPT ![p] = BitXor(cw[p], e)]

RsDecode(cw, nsym) ==
    LET n == Len(cw)
        synd == RsSyndromes(cw, nsym)
        clean(s) == \A i \in 1..Len(s) : s[i] = 0
        fixes == {p \in 1..n : clean(RsSyndromes(RsFlip(cw, p, synd[1]), nsym))}
    IN  IF n <= nsym THEN Raised
        ELSE IF clean(synd) THEN [ok |-> TRUE, val |-> SubSeq(cw, 1, n - nsym)]
        ELSE IF nsym >= 2 /\ fixes # {}
        THEN [ok |-> TRUE,
              val |-> SubSeq(RsFlip(cw, CHOOSE p \in fixes : TRUE, synd[1]), 1, n - nsym)]
        ELSE Raised

----------------------------------------------------------------------------
(* src/utils/dna_storage.py: the 80-base prefix                            *)

TYPE_CODE == [H |-> <<"A", "A">>, D |-> <<"C", "C">>, P |-> <<"G", "G">>]

(* TYPE_DECODE.get(type_code): "None" when the code is not in the table.   *)
TYPE_DECODE(type_code) ==
    IF type_code = <<"A", "A">> THEN "H"
    ELSE IF type_code = <<"C", "C">> THEN "D"
    ELSE IF type_code = <<"G", "G">> THEN "P"
    ELSE "None"

PrefixLen == 80

(* Fault variant of _bin_to_ct: the two letters exchanged.                 *)
BinToCtSwapped(bitstr) == List([i \in 1..Len(bitstr) |-> IF bitstr[i] = 1 THEN "T" ELSE "C"])

_bin_to_ct(bitstr) == List([i \in 1..Len(bitstr) |-> IF bitstr[i] = 1 THEN "C" ELSE "T"])

_ct_to_bin(ct) == List([i \in 1..Len(ct) |-> IF ct[i] = "C" THEN 1 ELSE 0])

(* Fault variant of _create_prefix: no check, every value is cut to the    *)
(* width of its bit field and an unknown type is written as a header.      *)
CreatePrefixWrapping(chunk_idx, total_chunks, seq_type, seq_idx, total_seqs) ==
    LET fields_bits == bytes_to_bits(chunk_idx % (2 ^ 24), 24)
                       \o bytes_to_bits(total_chunks % (2 ^ 24), 24)
                       \o bytes_to_bits(seq_idx % (2 ^ 10), 10)
                       \o bytes_to_bits(total_seqs % (2 ^ 10), 10)
        type_code == IF seq_type \in DOMAIN TYPE_CODE THEN TYPE_CODE[seq_type] ELSE <<"A", "A">>
    IN  [ok |-> TRUE,
         val |-> <<"A", "G">> \o type_code \o _bin_to_ct(fields_bits)
                 \o _bin_to_ct(bytes_to_bits(crc8(bits_to_bytes(fields_bits)), 8))]

_create_prefix(chunk_idx, total_chunks, seq_type, seq_idx, total_seqs) ==
    IF seq_type \notin DOMAIN TYPE_CODE THEN Raised
    ELSE IF ~(0 <= chunk_idx /\ chunk_idx < 2 ^ 24) \/ ~(0 <= total_chunks /\ total_chunks < 2 ^ 24)
    THEN Raised
    ELSE IF ~(0 <= seq_idx /\ seq_idx < 2 ^ 10) \/ ~(0 <= total_seqs /\ total_seqs < 2 ^ 10)
    THEN Raised
    ELSE LET fields_bits == bytes_to_bits(chunk_idx, 24) \o bytes_to_bits(total_chunks, 24)
                            \o bytes_to_bits(seq_idx, 10) \o bytes_to_bits(total_seqs, 10)
             crc == crc8(bits_to_bytes(fields_bits))
             crc_bits == bytes_to_bits(crc, 8)
             out == <<"A", "G">> \o TYPE_CODE[seq_type] \o _bin_to_ct(fields_bits)
                    \o _bin_to_ct(crc_bits)
         IN  IF Len(out) = PrefixLen THEN [ok |-> TRUE, val |-> out] ELSE Raised

None == [some |-> FALSE]

_parse_prefix(sequence) ==
    IF Len(sequence) < PrefixLen THEN None
    ELSE IF Slice(sequence, 0, 2) # <<"A", "G">> THEN None
    ELSE IF TYPE_DECODE(Slice(sequence, 2, 4)) = "None" THEN None
    ELSE LET fields_bits == _ct_to_bin(Slice(sequence, 4, 4 + 68))
             crc_bits == _ct_to_bin(Slice(sequence, 72, 80))
             calc_crc == crc8(bits_to_bytes(fields_bits))
         IN  IF bytes_to_bits(calc_crc, 8) # crc_bits THEN None
             ELSE [some |-> TRUE,
                   seq_type |-> TYPE_DECODE(Slice(sequence, 2, 4)),
                   chunk_idx |-> BitsToInt(fields_bits, 1, 24),
                   total_chunks |-> BitsToInt(fields_bits, 25, 48),
                   seq_idx |-> BitsToInt(fields_bits, 49, 58),
                   total_seqs |-> BitsToInt(fields_bits, 59, 68),
                   payload |-> Slice(sequence, 80, Len(sequence))]

----------------------------------------------------------------------------
(* src/utils/dna_storage.py: the 22-byte file header                       *)

Crc16Shift(crc, poly) ==
    IF BitAnd(crc, 32768) # 0 THEN BitAnd(BitXor(crc * 2, poly), 65535)
    ELSE BitAnd(crc * 2, 65535)

Crc16Byte(crc, b, poly) ==
    LET c0 == BitXor(crc, BitAnd(b * 256, 65535))
        c1 == Crc16Shift(c0, poly)
        c2 == Crc16Shift(c1, poly)
        c3 == Crc16Shift(c2, poly)
        c4 == Crc16Shift(c3, poly)
        c5 == Crc16Shift(c4, poly)
        c6 == Crc16Shift(c5, poly)
        c7 == Crc16Shift(c6, poly)
    IN  Crc16Shift(c7, poly)

RECURSIVE Crc16Fold(_, _, _, _, _)
Crc16Fold(crc, bytes, lo, hi, poly) ==
    IF lo > hi THEN crc
    ELSE IF lo = hi THEN Crc16Byte(crc, bytes[lo], poly)
    ELSE LET mid == (lo + hi) \div 2
             left == Crc16Fold(crc, bytes, lo, mid, poly)
         IN  IF left = left THEN Crc16Fold(left, bytes, mid + 1, hi, poly) ELSE left

Crc16Poly == 4129
Crc16Init == 65535

(* Fault variant of _crc16_ccitt: the loop stops one byte early.           *)
Crc16SkipsLastByte(bytes) ==
    BitAnd(Crc16Fold(Crc16Init, bytes, 1, Len(bytes) - 1, Crc16Poly), 65535)

_crc16_ccitt(bytes) == BitAnd(Crc16Fold(Crc16Init, bytes, 1, Len(bytes), Crc16Poly), 65535)

HeaderLen == 22

(* x.to_bytes(n, 'little') for 0 <= x < 2^31.                              *)
IntToBytesLE(x, n) == List([i \in 1..n |-> IF i <= 4 THEN (x \div (256 ^ (i - 1))) % 256 ELSE 0])

(* The 22 header bytes for the given field bytes: the CRC-16 of the first  *)
(* 20 bytes is appended little-endian.                                     *)
HeaderBytes(size8, chunk2, nsym, reserved, checksum8) ==
    LET first20 == size8 \o chunk2 \o <<nsym, reserved>> \o checksum8
        crc16 == _crc16_ccitt(first20)
    IN  first20 \o <<crc16 % 256, crc16 \div 256>>

(* _create_header: chunk_size.to_bytes(2, 'little') raises OverflowError   *)
(* outside 0..65535 and a bytearray item must be in 0..255.                *)
_create_header(self, file_size, checksum8) ==
    IF ~(0 <= self.chunk_size /\ self.chunk_size < 65536) THEN Raised
    ELSE IF ~(0 <= self.error_correction /\ self.error_correction < 256) THEN Raised
    ELSE [ok |-> TRUE,
          val |-> HeaderBytes(IntToBytesLE(file_size, 8), IntToBytesLE(self.chunk_size, 2),
                              self.error_correction, 0, checksum8)]

(* Values at or above these act like any larger one in decode_sequences:   *)
(* a chunk index is below 2^24 and the reconstruction buffer far shorter   *)
(* than 2^30 bytes.                                                        *)
NumChunksCap == 16777216
FileSizeCap == 1073741824

(* int.from_bytes(hdr[0:8], 'little'), capped at FileSizeCap.              *)
HeaderFileSize(hdr) ==
    IF (\E i \in 5..8 : hdr[i] # 0) \/ hdr[4] >= 64 THEN FileSizeCap
    ELSE hdr[1] + 256 * hdr[2] + 65536 * hdr[3] + 16777216 * hdr[4]

(* (file_size + chunk_size - 1) // chunk_size for 1 <= chunk_size <= 251,  *)
(* capped at NumChunksCap; the division is done on 16-bit halves.          *)
HeaderNumChunks(hdr, chunk_size) ==
    IF \E i \in 5..8 : hdr[i] # 0 THEN NumChunksCap
    ELSE LET high == hdr[3] + 256 * hdr[4]
             low == (high % chunk_size) * 65536 + hdr[1] + 256 * hdr[2]
             qh == high \div chunk_size
             ql == (low + chunk_size - 1) \div chunk_size
         IN  IF qh >= 255 THEN NumChunksCap ELSE qh * 65536 + ql

RsMaxCodeword == 255
Crc32Len == 4

(* Fault variant of _parse_header: the RS constraint is not revalidated.    *)
ParseHeaderNoRsCheck(hdr) ==
    IF Len(hdr) < HeaderLen THEN Raised
    ELSE IF _crc16_ccitt(SubSeq(hdr, 1, 20)) # hdr[21] + 256 * hdr[22] THEN Raised
    ELSE IF hdr[9] + 256 * hdr[10] = 0 THEN Raised
    ELSE [ok |-> TRUE,
          val |-> [file_size |-> HeaderFileSize(hdr),
                   chunk_size |-> hdr[9] + 256 * hdr[10],
                   nsym |-> hdr[11],
                   checksum8 |-> SubSeq(hdr, 13, 20),
                   num_chunks |-> HeaderNumChunks(hdr, hdr[9] + 256 * hdr[10])]]

(* _parse_header: any exception (short header, CRC-16 mismatch, division   *)
(* by a zero chunk_size, RS limit) is the outcome Raised.                  *)
_parse_header(hdr) ==
    IF Len(hdr) < HeaderLen THEN Raised
    ELSE IF _crc16_ccitt(SubSeq(hdr, 1, 20)) # hdr[21] + 256 * hdr[22] THEN Raised
    ELSE LET chunk_size == hdr[9] + 256 * hdr[10]
             nsym == hdr[11]
         IN  IF chunk_size = 0 THEN Raised
             ELSE IF chunk_size + Crc32Len + nsym > RsMaxCodeword THEN Raised
             ELSE [ok |-> TRUE,
                   val |-> [file_size |-> HeaderFileSize(hdr),
                            chunk_size |-> chunk_size,
                            nsym |-> nsym,
                            checksum8 |-> SubSeq(hdr, 13, 20),
                            num_chunks |-> HeaderNumChunks(hdr, chunk_size)]]

----------------------------------------------------------------------------
(* src/utils/dna_storage.py: helpers of the pipelines                      *)

StartBases == <<"A", "C", "G", "T">>

(* Fault variant of _encode_with_constraints: the start bases are tried    *)
(* from the last one to the first.                                         *)
EncodeWithConstraintsLastFirst(b) ==
    LET passing == {k \in 1..4 : passes_constraints(bytes_to_dna_goldman(b, StartBases[k]))}
    IN  IF passing = {} THEN bytes_to_dna_goldman(b, "A")
        ELSE bytes_to_dna_goldman(b, StartBases[CHOOSE k \in passing : \A j \in passing : k >= j])

(* _encode_with_constraints: the Goldman encoding for the first start base *)
(* of A, C, G, T whose DNA passes the constraints, that of A if none does. *)
_encode_with_constraints(b) ==
    LET passing == {k \in 1..4 : passes_constraints(bytes_to_dna_goldman(b, StartBases[k]))}
    IN  IF passing = {} THEN bytes_to_dna_goldman(b, "A")
        ELSE bytes_to_dna_goldman(b, StartBases[CHOOSE k \in passing : \A j \in passing : k <= j])

(* Fault variant of MostCommon: among equal counts, the base met last.     *)
MostCommonLastSeen(col) ==
    LET count(x) == Cardinality({k \in 1..Len(col) : col[k] = x})
        best == CHOOSE k \in 1..Len(col) :
                    /\ \A j \in (k + 1)..Len(col) : col[j] # col[k]
                    /\ \A j \in 1..Len(col) :
                          \/ count(col[j]) < count(col[k])
                          \/ (count(col[j]) = count(col[k]) /\ j <= k)
    IN  col[best]

(* Counter(col).most_common(1)[0][0]: the element of col with the highest  *)
(* count; among equals, the one met first in col.                          *)
MostCommon(col) ==
    LET count(x) == Cardinality({k \in 1..Len(col) : col[k] = x})
        first(x) == CHOOSE k \in 1..Len(col) : col[k] = x /\ \A j \in 1..(k - 1) : col[j] # x
        best == CHOOSE k \in 1..Len(col) :
                    /\ first(col[k]) = k
                    /\ \A j \in 1..Len(col) :
                          \/ count(col[j]) < count(col[k])
                          \/ (count(col[j]) = count(col[k]) /\ first(col[j]) >= k)
    IN  col[best]

MaxLen(reads) == CHOOSE n \in {Len(reads[k]) : k \in 1..Len(reads)} :
                     \A k \in 1..Len(reads) : Len(reads[k]) <= n

(* _consensus: per-column majority over the reads long enough to have the  *)
(* column.  With two reads or more every column below the longest length   *)
(* has at least one base, so no column is skipped.                         *)
_consensus(reads) ==
    IF Len(reads) = 0 THEN <<>>
    ELSE IF Len(reads) = 1 THEN reads[1]
    ELSE List([i \in 1..MaxLen(reads) |->
                  MostCommon(SelectSeq(List([k \in 1..Len(reads) |->
                                                IF i <= Len(reads[k]) THEN reads[k][i] ELSE "-"]),
                                       LAMBDA c : c # "-"))])

(* Fault variant of Segments: slices one element too long, s[i:i+n+1].     *)
SegmentsOneTooLong(s, n) ==
    List([k \in 1..((Len(s) + n - 1) \div n) |-> Slice(s, n * (k - 1), (n * k) + 1)])

(* [s[i:i+n] for i in range(0, len(s), n)]: the range is empty for n < 0;  *)
(* for n = 0 range() raises, which the callers test before they slice.     *)
Segments(s, n) ==
    IF n < 1 THEN <<>>
    ELSE List([k \in 1..((Len(s) + n - 1) \div n) |-> Slice(s, n * (k - 1), n * k)])

(* Fault variant of Copies: the replication loop runs once.                *)
CopiesOnce(x, n) == <<x>>

(* [x] * n, concatenated: the list holding n copies of x (none if n <= 0). *)
Copies(x, n) == List([k \in 1..n |-> x])

----------------------------------------------------------------------------
(* src/utils/dna_storage.py: encode_file                                   *)

MaxTotalSeqs == 256
HeaderCopiesFactor == 2

(* Fault variant of ParitySeqIdx: parity numbering restarts at 0.          *)
ParitySeqIdxFromZero(n_data, j) == j - 1

(* seq_idx of the parity segment at position p_i = j - 1, after the        *)
(* len(data_segments) data segments.                                       *)
ParitySeqIdx(n_data, j) == n_data + j - 1

(* payload = chunk + crc32.to_bytes(4, 'little')                           *)
ChunkPayloadBytes(chunk) == chunk \o Word32ToBytesLE(crc32(chunk))

(* codeword = rs.encode(payload)                                           *)
ChunkCodeword(self, chunk) == RsEncode(ChunkPayloadBytes(chunk), self.error_correction)

(* data_rs = codeword[:len(payload)] and parity_rs = codeword[len(payload):] *)
DataRs(codeword, payload_len) == Slice(codeword, 0, payload_len)
ParityRs(codeword, payload_len) == Slice(codeword, payload_len, Len(codeword))

(* The oligos of one chunk from its segments: redundancy copies of each    *)
(* data segment, then redundancy copies of each parity segment; Raised on  *)
(* a zero segment_nt (range() step), on 256 segments or more, or when a    *)
(* prefix cannot be built.                                                 *)
ChunkOligos(self, chunk_idx, num_chunks, data_segments, parity_segments) ==
    LET total_seqs == Len(data_segments) + Len(parity_segments)
        dprefix(i) == _create_prefix(chunk_idx, num_chunks, "D", i - 1, total_seqs)
        pprefix(j) == _create_prefix(chunk_idx, num_chunks, "P",
                                     ParitySeqIdx(Len(data_segments), j), total_seqs)
    IN  IF self.segment_nt = 0 THEN Raised
        ELSE IF total_seqs >= MaxTotalSeqs THEN Raised
        ELSE IF \/ \E i \in 1..Len(data_segments) : ~dprefix(i).ok
                \/ \E j \in 1..Len(parity_segments) : ~pprefix(j).ok
        THEN Raised
        ELSE [ok |-> TRUE,
              val |-> Join(List([i \in 1..Len(data_segments) |->
                                    Copies(dprefix(i).val \o data_segments[i], self.redundancy)]))
                      \o Join(List([j \in 1..Len(parity_segments) |->
                                    Copies(pprefix(j).val \o parity_segments[j],
                                           self.redundancy)]))]

(* The segments of the DNA of data_rs and of parity_rs, each encoded by    *)
(* _encode_with_constraints on its own.                                    *)
DataSegments(self, codeword, payload_len) ==
    Segments(_encode_with_constraints(DataRs(codeword, payload_len)), self.segment_nt)
ParitySegments(self, codeword, payload_len) ==
    Segments(_encode_with_constraints(ParityRs(codeword, payload_len)), self.segment_nt)

CodewordOligos(self, codeword, payload_len, chunk_idx, num_chunks) ==
    ChunkOligos(self, chunk_idx, num_chunks,
                DataSegments(self, codeword, payload_len),
                ParitySegments(self, codeword, payload_len))

(* One pass of the loop over the chunks.                                   *)
EncodeChunk(self, chunk, chunk_idx, num_chunks) ==
    CodewordOligos(self, ChunkCodeword(self, chunk), Len(chunk) + Crc32Len,
                   chunk_idx, num_chunks)

(* chunks = [data[i:i+chunk_size] ...]                                     *)
Chunks(self, data) == Segments(data, self.chunk_size)

EncodedChunks(self, chunks) ==
    List([c \in 1..Len(chunks) |-> EncodeChunk(self, chunks[c], c, Len(chunks))])

(* The header bytes and the header prefix as encode_file builds them; the  *)
(* division raises ZeroDivisionError for a zero chunk_size (a negative one *)
(* has made _create_header raise before).                                  *)
FileHeader(self, data) == _create_header(self, Len(data), SubSeq(sha256(data), 1, 8))
HeaderPrefix(self, data) ==
    IF self.chunk_size = 0 THEN Raised
    ELSE _create_prefix(0, (Len(data) + self.chunk_size - 1) \div self.chunk_size, "H", 0, 1)

(* The list encode_file returns: redundancy * 2 copies of the header       *)
(* oligo, then the oligos of the chunks in order.                          *)
FileOligos(self, header_bytes, header_prefix, encoded) ==
    IF ~header_bytes.ok \/ ~header_prefix.ok THEN Raised
    ELSE IF \E c \in 1..Len(encoded) : ~encoded[c].ok THEN Raised
    ELSE [ok |-> TRUE,
          val |-> Copies(header_prefix.val \o bytes_to_dna_goldman(header_bytes.val, "A"),
                         self.redundancy * HeaderCopiesFactor)
                  \o Join(List([c \in 1..Len(encoded) |-> encoded[c].val]))]

(* encode_file on a file holding data: the header, then the header prefix, *)
(* then the chunks; the first exception ends the call.                     *)
encode_file(self, data) ==
    FileOligos(self, FileHeader(self, data), HeaderPrefix(self, data),
               EncodedChunks(self, Chunks(self, data)))

----------------------------------------------------------------------------
(* src/utils/dna_storage.py: decode_sequences                              *)

(* sorted(keys): the elements of a finite set of integers, ascending.      *)
RECURSIVE Sorted(_)
Sorted(S) ==
    IF S = {} THEN <<>>
    ELSE LET m == CHOOSE x \in S : \A y \in S : x <= y
         IN  <<m>> \o Sorted(S \ {m})

(* The infos of the reads that _parse_prefix accepts, in input order.      *)
ParsedReads(seqs) ==
    SelectSeq(List([k \in 1..Len(seqs) |-> _parse_prefix(seqs[k])]),
              LAMBDA info : info.some)

PayloadsOf(infos) == List([k \in 1..Len(infos) |-> infos[k].payload])

(* entry[kind][si] of chunks_map[ci]: the payloads, in input order, of the *)
(* reads of that type, chunk and sequence index.                           *)
GroupReads(parsed, kind, ci, si) ==
    PayloadsOf(SelectSeq(parsed, LAMBDA p : p.seq_type = kind /\ p.chunk_idx = ci
                                            /\ p.seq_idx = si))

(* ''.join(consensus(entry[kind][i]) for i in sorted(entry[kind].keys()))  *)
KindSeq(parsed, kind, ci) ==
    LET keys == Sorted({parsed[k].seq_idx : k \in {j \in 1..Len(parsed) :
                           parsed[j].seq_type = kind /\ parsed[j].chunk_idx = ci}})
    IN  Join(List([i \in 1..Len(keys) |-> _consensus(GroupReads(parsed, kind, ci, keys[i]))]))

(* dna_to_bytes_goldman(seq, "A") if seq else b""                          *)
ChunkBytes(seq) ==
    IF Len(seq) > 0 THEN dna_to_bytes_goldman(seq, "A") ELSE [ok |-> TRUE, val |-> <<>>]

(* decoded: rs.decode(all_bytes)[0], or data_bytes_rs when the RS decoder  *)
(* raises ReedSolomonError.                                                *)
RsOrData(rs, data_bytes_rs) == IF rs.ok THEN rs.val ELSE data_bytes_rs

(* Fault variant of CheckedPayload: the CRC-32 is not compared.            *)
CheckedPayloadNoCrc(decoded) ==
    IF Len(decoded) < Crc32Len THEN Raised
    ELSE [ok |-> TRUE, val |-> SubSeq(decoded, 1, Len(decoded) - Crc32Len)]

(* payload = decoded[:-4] when its CRC-32 equals decoded[-4:], else the    *)
(* chunk is skipped (Raised).                                              *)
CheckedPayload(decoded) ==
    IF Len(decoded) < Crc32Len THEN Raised
    ELSE IF crc32(SubSeq(decoded, 1, Len(decoded) - Crc32Len))
            # Word32FromBytesLE(SubSeq(decoded, Len(decoded) - 3, Len(decoded)))
    THEN Raised
    ELSE [ok |-> TRUE, val |-> SubSeq(decoded, 1, Len(decoded) - Crc32Len)]

ChunkPayload(data_bytes_rs, parity_bytes_rs, nsym) ==
    IF ~data_bytes_rs.ok \/ ~parity_bytes_rs.ok THEN Raised
    ELSE CheckedPayload(RsOrData(RsDecode(data_bytes_rs.val \o parity_bytes_rs.val, nsym),
                                 data_bytes_rs.val))

(* The body of the loop over chunk indices for one chunk present in        *)
(* chunks_map: the payload appended to reconstructed, or ok = FALSE when   *)
(* the chunk is skipped (continue).                                        *)
DecodeChunk(parsed, ci, nsym) ==
    ChunkPayload(ChunkBytes(KindSeq(parsed, "D", ci)), ChunkBytes(KindSeq(parsed, "P", ci)), nsym)

Failure == [ok |-> FALSE, bytes |-> <<>>]

(* header_reads: the payloads of the H reads with chunk_idx 0.             *)
HeaderReads(parsed) ==
    PayloadsOf(SelectSeq(parsed, LAMBDA p : p.seq_type = "H" /\ p.chunk_idx = 0))

ParseHeaderBytes(header_bytes) ==
    IF ~header_bytes.ok THEN Raised ELSE _parse_header(header_bytes.val)

(* The header stage: the consensus of the header reads, Goldman-decoded    *)
(* from start A and parsed; Raised when there is no such read or when      *)
(* decoding or parsing raises.                                             *)
HeaderOf(parsed) ==
    IF Len(HeaderReads(parsed)) = 0 THEN Raised
    ELSE ParseHeaderBytes(dna_to_bytes_goldman(_consensus(HeaderReads(parsed)), "A"))

(* The chunk indices of 1..num_chunks that are in chunks_map, ascending.   *)
PresentChunks(parsed, num_chunks) ==
    Sorted({ci \in {parsed[k].chunk_idx : k \in {j \in 1..Len(parsed) : parsed[j].seq_type # "H"}} :
               1 <= ci /\ ci <= num_chunks})

PayloadOrNothing(r) == IF r.ok THEN r.val ELSE <<>>

ChunkPayloads(parsed, cis, nsym) ==
    List([k \in 1..Len(cis) |-> PayloadOrNothing(DecodeChunk(parsed, cis[k], nsym))])

(* The chunk stage: the payloads of the chunks 1..num_chunks that are in   *)
(* chunks_map and pass, joined in ascending chunk index, then cut to       *)
(* file_size.                                                              *)
ReconstructedFile(parsed, header) ==
    Slice(Join(ChunkPayloads(parsed, PresentChunks(parsed, header.num_chunks), header.nsym)),
          0, header.file_size)

(* Fault variant of DigestOk: the digest is not compared.                  *)
DigestUnchecked(file_bytes, checksum8) == TRUE

(* hashlib.sha256(file_bytes).digest()[:8] == header['checksum8']          *)
DigestOk(file_bytes, checksum8) == SubSeq(sha256(file_bytes), 1, 8) = checksum8

(* Fault variant of Verdict: the buffer is returned whatever ok is.        *)
VerdictWithBytes(ok, file_bytes) == [ok |-> ok, bytes |-> file_bytes]

(* return (ok, file_bytes if ok else b"")                                  *)
Verdict(ok, file_bytes) == [ok |-> ok, bytes |-> IF ok THEN file_bytes ELSE <<>>]

DigestVerdict(file_bytes, checksum8) == Verdict(DigestOk(file_bytes, checksum8), file_bytes)

DecodeWithHeader(parsed, header) ==
    IF ~header.ok THEN Failure
    ELSE DigestVerdict(ReconstructedFile(parsed, header.val), header.val.checksum8)

DecodeParsed(parsed) ==
    IF Len(parsed) = 0 THEN Failure ELSE DecodeWithHeader(parsed, HeaderOf(parsed))

decode_sequences(seqs) == DecodeParsed(ParsedReads(seqs))

----------------------------------------------------------------------------
(* The prefix harness: _create_prefix on drawn arguments, then             *)
(* _parse_prefix on the prefix followed by a drawn payload.                *)

(* The codec variables while the prefix harness runs, and the harness     *)
(* variables while the codec runs.                                         *)
CodecIdle ==
    /\ codec = [chunk_size |-> 100, redundancy |-> 3, error_correction |-> 10, segment_nt |-> 120]
    /\ file = <<>>
    /\ oligos = <<>>
    /\ received = <<>>
    /\ channel = [kind |-> "clean", chunk |-> 0]
    /\ result = Failure
    /\ pc = "idle"

PrefixIdle ==
    /\ pfx_pc = "idle"
    /\ pfx_in = [seq_type |-> "H", chunk_idx |-> 0, total_chunks |-> 0, seq_idx |-> 0,
                 total_seqs |-> 1, payload |-> <<>>]
    /\ pfx_out = <<>>
    /\ pfx_info = None

SeqTypes == {"H", "D", "P", "X"}
ChunkFieldValues == {-1, 0, 1, 2, 5592405, 2 ^ 24 - 1, 2 ^ 24}
SeqFieldValues == {-1, 0, 1, 682, 2 ^ 10 - 1, 2 ^ 10}
Payloads == {<<>>, <<"A">>, <<"C", "T", "G">>}

PrefixInit ==
    /\ pfx_pc = "args"
    /\ pfx_in \in [seq_type : SeqTypes, chunk_idx : ChunkFieldValues,
                   total_chunks : {-1, 0, 3, 2 ^ 24 - 1, 2 ^ 24},
                   seq_idx : SeqFieldValues, total_seqs : {0, 1, 2 ^ 10 - 1, 2 ^ 10},
                   payload : Payloads]
    /\ pfx_out = <<>>
    /\ pfx_info = None
    /\ CodecIdle

CreatePrefix ==
    /\ pfx_pc = "args"
    /\ LET r == _create_prefix(pfx_in.chunk_idx, pfx_in.total_chunks, pfx_in.seq_type,
                               pfx_in.seq_idx, pfx_in.total_seqs)
       IN  /\ pfx_pc' = IF r.ok THEN "created" ELSE "raised"
           /\ pfx_out' = r.val
    /\ UNCHANGED <<pfx_in, pfx_info>>
    /\ UNCHANGED codec_vars

ParsePrefix ==
    /\ pfx_pc = "created"
    /\ pfx_info' = _parse_prefix(pfx_out \o pfx_in.payload)
    /\ pfx_pc' = "parsed"
    /\ UNCHANGED <<pfx_in, pfx_out>>
    /\ UNCHANGED codec_vars

(* The read of S3: sync AG, type AA, 76 T and some garbage after them.     *)
ZeroRead == <<"A", "G", "A", "A">> \o List([i \in 1..76 |-> "T"]) \o <<"G", "A", "C">>

(* The positions the channel touches in a read: the sync word, the type    *)
(* code, the first and last field base, the first and last CRC base.       *)
TouchedBases == {1, 3, 4, 5, 72, 73, 80}

(* What may reach the decoder in place of the oligo prefix + payload: the  *)
(* oligo itself, the oligo cut to 79 bases, the oligo with one base        *)
(* replaced by another one, or the read of S3.                             *)
ReadsFor(oligo) ==
    {oligo, Slice(oligo, 0, PrefixLen - 1), ZeroRead}
    \cup {[oligo EXCEPT ![p] = b] : p \in TouchedBases, b \in {"A", "C", "G", "T"}}

(* A read arrives for the oligo built from the prefix and the payload.     *)
CorruptPrefix ==
    /\ pfx_pc = "created"
    /\ \E read \in ReadsFor(pfx_out \o pfx_in.payload) :
           pfx_out' = read
    /\ pfx_pc' = "read"
    /\ UNCHANGED <<pfx_in, pfx_info>>
    /\ UNCHANGED codec_vars

(* _parse_prefix on the read that arrived.                                 *)
ParseRead ==
    /\ pfx_pc = "read"
    /\ pfx_info' = _parse_prefix(pfx_out)
    /\ pfx_pc' = "read_parsed"
    /\ UNCHANGED <<pfx_in, pfx_out>>
    /\ UNCHANGED codec_vars

PrefixNext == CreatePrefix \/ ParsePrefix \/ CorruptPrefix \/ ParseRead

SpecPrefix == PrefixInit /\ [][PrefixNext]_vars

----------------------------------------------------------------------------
(* The codec run: a DNAStorage object and a file are drawn, encode_file    *)
(* produces the oligos, the channel hands them to the decoder unchanged or *)
(* after one operation, and decode_sequences is called on what arrives.    *)

MaxFileLen == 2
DataBytes == {2, 65}

Files == UNION {[1..n -> DataBytes] : n \in 0..MaxFileLen}

DNAStorage(chunk_size, redundancy, error_correction, segment_nt) ==
    [chunk_size |-> chunk_size, redundancy |-> redundancy,
     error_correction |-> error_correction, segment_nt |-> segment_nt]

(* DNAStorage.__init__ raises ValueError beyond the RS codeword length.    *)
ConstructorAccepts(s) == ~(s.chunk_size + Crc32Len + s.error_correction > RsMaxCodeword)

Storages ==
    {DNAStorage(1, 1, 2, 120), DNAStorage(2, 2, 2, 18),
     DNAStorage(1, 3, 1, 140), DNAStorage(3, 2, 3, 25)}

CodecInit(storages) ==
    /\ codec \in {s \in storages : ConstructorAccepts(s)}
    /\ file \in Files
    /\ oligos = <<>>
    /\ received = <<>>
    /\ channel = [kind |-> "clean", chunk |-> 0]
    /\ result = Failure
    /\ pc = "new"
    /\ PrefixIdle

EncodeFile ==
    /\ pc = "new"
    /\ \E r \in {encode_file(codec, file)} :
           /\ pc' = IF r.ok THEN "encoded" ELSE "raised"
           /\ oligos' = r.val
           /\ received' = r.val
    /\ UNCHANGED <<codec, file, channel, result>>
    /\ UNCHANGED prefix_vars

DecodeSequences ==
    /\ pc = "encoded"
    /\ result' = decode_sequences(received)
    /\ pc' = "decoded"
    /\ UNCHANGED <<codec, file, oligos, received, channel>>
    /\ UNCHANGED prefix_vars

(* The channel acts once, on the encoder's list.                           *)
ChannelOpen == pc = "encoded" /\ channel.kind = "clean"

ChannelStep(kind, chunk, list) ==
    /\ ChannelOpen
    /\ list # received
    /\ received' = list
    /\ channel' = [kind |-> kind, chunk |-> chunk]
    /\ UNCHANGED <<codec, file, oligos, result, pc>>
    /\ UNCHANGED prefix_vars

RemoveAt(list, i) == SubSeq(list, 1, i - 1) \o SubSeq(list, i + 1, Len(list))

IsHeaderOligo(s) == _parse_prefix(s).some /\ _parse_prefix(s).seq_type = "H"

(* A permutation of the list: a rotation by one read, by half the list or  *)
(* by all reads but one, the reversal, or the exchange of two neighbours.  *)
Rotate ==
    /\ ChannelOpen
    /\ \E k \in {1, Len(received) \div 2, Len(received) - 1} \cap 1..(Len(received) - 1) :
           ChannelStep("permuted", 0, SubSeq(received, k + 1, Len(received)) \o SubSeq(received, 1, k))

Reverse ==
    /\ ChannelOpen
    /\ \E n \in {Len(received)} :
           ChannelStep("permuted", 0, List([i \in 1..n |-> received[n + 1 - i]]))

SwapNeighbours ==
    /\ ChannelOpen
    /\ \E i \in 1..(Len(received) - 1) :
           ChannelStep("permuted", 0,
                       [received EXCEPT ![i] = received[i + 1], ![i + 1] = received[i]])

(* Copies of data and parity oligos are lost, one copy of each surviving:  *)
(* one copy of one oligo, or all but the first k copies of every oligo.    *)
RemoveCopy ==
    /\ ChannelOpen
    /\ \E i \in 1..Len(received) :
           /\ ~IsHeaderOligo(received[i])
           /\ \E j \in 1..Len(received) : j # i /\ received[j] = received[i]
           /\ ChannelStep("thinned", 0, RemoveAt(received, i))

CopiesBefore(list, i) == Cardinality({j \in 1..(i - 1) : list[j] = list[i]})

KeepCopies ==
    /\ ChannelOpen
    /\ \E k \in 1..(codec.redundancy - 1) :
           ChannelStep("thinned", 0,
                       SelectSeq(List([i \in 1..Len(received) |->
                                          IF IsHeaderOligo(received[i]) \/ CopiesBefore(received, i) < k
                                          THEN received[i] ELSE <<>>]),
                                 LAMBDA s : s # <<>>))

(* Every data and parity oligo of one chunk index is lost.                 *)
DropChunk ==
    /\ ChannelOpen
    /\ \E c \in 1..Len(Segments(file, codec.chunk_size)) :
           ChannelStep("dropped", c,
                       SelectSeq(received, LAMBDA s : IsHeaderOligo(s) \/ _parse_prefix(s).chunk_idx # c))

Init == CodecInit(Storages)

Next ==
    \/ EncodeFile
    \/ Rotate
    \/ Reverse
    \/ SwapNeighbours
    \/ RemoveCopy
    \/ KeepCopies
    \/ DropChunk
    \/ DecodeSequences

Spec == Init /\ [][Next]_vars

----------------------------------------------------------------------------
(* The encoder alone, over a wider range of parameter sets.                *)

EncStorages ==
    {DNAStorage(cs, r, ns, seg) : cs \in {1, 2}, r \in {1, 2, 3}, ns \in {1, 2},
                                  seg \in {7, 18, 120, 140}}
    \cup {DNAStorage(250, 1, 2, 120)}

InitEncode == CodecInit(EncStorages)

NextEncode == EncodeFile

SpecEncode == InitEncode /\ [][NextEncode]_vars

----------------------------------------------------------------------------
(* The decoder on lists that are not the encoder's: one operation of a     *)
(* noisy or adversarial channel acts on the list before decode_sequences.  *)

NoisyStorages == {DNAStorage(1, 1, 2, 120), DNAStorage(2, 2, 2, 18)}

InitNoisy == CodecInit(NoisyStorages)

NextBase(b) == IF b = "A" THEN "C" ELSE IF b = "C" THEN "G" ELSE IF b = "G" THEN "T" ELSE "A"

(* The reads the channel touches: the first header copy, the first data    *)
(* read and the last read; the bases it touches: the sync word, a field    *)
(* base, the first payload base and the last base.                         *)
ReadSample == {1, (codec.redundancy * HeaderCopiesFactor) + 1, Len(received)} \cap 1..Len(received)
BaseSample(s) == {1, 5, PrefixLen + 1, Len(s)} \cap 1..Len(s)

(* One base of one read is replaced by another base.                       *)
Substitute ==
    /\ ChannelOpen
    /\ \E i \in ReadSample :
           \E p \in BaseSample(received[i]) :
               ChannelStep("noisy", 0, [received EXCEPT ![i][p] = NextBase(@)])

(* The first payload base is unreadable (N) in every copy of one oligo.    *)
SubstituteAll ==
    /\ ChannelOpen
    /\ \E i \in ReadSample :
           /\ PrefixLen + 1 <= Len(received[i])
           /\ ChannelStep("noisy", 0,
                          List([k \in 1..Len(received) |->
                                   IF received[k] = received[i]
                                   THEN [received[k] EXCEPT ![PrefixLen + 1] = "N"]
                                   ELSE received[k]]))

(* One read is cut inside its prefix or just after it.                     *)
Truncate ==
    /\ ChannelOpen
    /\ \E i \in {1, Len(received)} \cap 1..Len(received) :
           \E n \in {PrefixLen - 1, PrefixLen + 1} :
               ChannelStep("noisy", 0, [received EXCEPT ![i] = Slice(@, 0, n)])

LoseHeaders ==
    /\ ChannelOpen
    /\ ChannelStep("noisy", 0, SelectSeq(received, LAMBDA s : ~IsHeaderOligo(s)))

LoseAll ==
    /\ ChannelOpen
    /\ ChannelStep("noisy", 0, <<>>)

Duplicate ==
    /\ ChannelOpen
    /\ \E i \in ReadSample :
           ChannelStep("noisy", 0, Append(received, received[i]))

(* Header fields of an adversary: a zero chunk_size, RS parameters beyond  *)
(* the codeword length, a file_size of 2^32, and a file_size one byte      *)
(* short with the digest of the file cut to it.  Each is sent with a valid *)
(* CRC-16 in place of every header copy.                                   *)
ForgedHeaders ==
    {[size8 |-> IntToBytesLE(Len(file), 8), chunk2 |-> <<0, 0>>, nsym |-> codec.error_correction,
      checksum8 |-> SubSeq(sha256(file), 1, 8)],
     [size8 |-> IntToBytesLE(Len(file), 8), chunk2 |-> <<250, 0>>, nsym |-> 10,
      checksum8 |-> SubSeq(sha256(file), 1, 8)],
     [size8 |-> <<0, 0, 0, 0, 1, 0, 0, 0>>, chunk2 |-> IntToBytesLE(codec.chunk_size, 2),
      nsym |-> codec.error_correction, checksum8 |-> SubSeq(sha256(file), 1, 8)]}
    \cup {[size8 |-> IntToBytesLE(Len(file) - 1, 8), chunk2 |-> IntToBytesLE(codec.chunk_size, 2),
           nsym |-> codec.error_correction,
           checksum8 |-> SubSeq(sha256(SubSeq(file, 1, Len(file) - 1)), 1, 8)] :
          n \in {Len(file)} \ {0}}

ForgedHeaderOligo(h) ==
    _create_prefix(0, 1, "H", 0, 1).val
    \o bytes_to_dna_goldman(HeaderBytes(h.size8, h.chunk2, h.nsym, 0, h.checksum8), "A")

ForgeHeader ==
    /\ ChannelOpen
    /\ \E h \in ForgedHeaders :
           \E forged \in {ForgedHeaderOligo(h)} :
               ChannelStep("noisy", 0,
                           List([k \in 1..Len(received) |->
                                    IF IsHeaderOligo(received[k]) THEN forged ELSE received[k]]))

(* A data read addressed to chunk 0 or to a chunk beyond the last one.     *)
StrayChunk ==
    /\ ChannelOpen
    /\ \E ci \in {0, Len(Chunks(codec, file)) + 1} :
           ChannelStep("noisy", 0,
                       Append(received, _create_prefix(ci, 1, "D", 0, 2).val
                                        \o Slice(received[Len(received)], PrefixLen, PrefixLen + 36)))

(* The reads of another file encoded with the same parameters are mixed in, *)
(* before or after the reads of the file.                                  *)
OtherFile == IF file = <<65>> THEN <<2>> ELSE <<65>>

Splice ==
    /\ ChannelOpen
    /\ \E other \in {encode_file(codec, OtherFile).val} :
           \E list \in {received \o other, other \o received} :
               ChannelStep("noisy", 0, list)

NextNoisy ==
    \/ EncodeFile
    \/ Substitute
    \/ SubstituteAll
    \/ Truncate
    \/ LoseHeaders
    \/ LoseAll
    \/ Duplicate
    \/ ForgeHeader
    \/ StrayChunk
    \/ Splice
    \/ DecodeSequences

SpecNoisy == InitNoisy /\ [][NextNoisy]_vars

----------------------------------------------------------------------------
(* The Goldman code alone: bytes_to_dna_goldman on drawn bytes and a drawn *)
(* start base, then dna_to_bytes_goldman on its result with the same start *)
(* base.  The arguments and results are held in the harness variables.     *)

(* Every single byte, and the strings of up to MaxFileLen bytes over the   *)
(* bytes with the digits 000000, 222222 (base 3), the largest byte and the *)
(* byte of "2".                                                            *)
GoldmanInputs ==
    {<<b>> : b \in 0..255} \cup UNION {[1..n -> {0, 50, 242, 255}] : n \in 0..MaxFileLen}

GoldmanInit ==
    /\ pfx_pc = "bytes"
    /\ pfx_in \in [data : GoldmanInputs, start : {"A", "C", "G", "T"}]
    /\ pfx_out = <<>>
    /\ pfx_info = None
    /\ CodecIdle

GoldmanEncode ==
    /\ pfx_pc = "bytes"
    /\ pfx_out' = bytes_to_dna_goldman(pfx_in.data, pfx_in.start)
    /\ pfx_pc' = "dna"
    /\ UNCHANGED <<pfx_in, pfx_info>>
    /\ UNCHANGED codec_vars

GoldmanDecode ==
    /\ pfx_pc = "dna"
    /\ pfx_info' = dna_to_bytes_goldman(pfx_out, pfx_in.start)
    /\ pfx_pc' = "bytes_again"
    /\ UNCHANGED <<pfx_in, pfx_out>>
    /\ UNCHANGED codec_vars

GoldmanNext == GoldmanEncode \/ GoldmanDecode

SpecGoldman == GoldmanInit /\ [][GoldmanNext]_vars

----------------------------------------------------------------------------
(* The file header alone: _create_header as encode_file calls it, one bit  *)
(* of bytes 0..19 flipped or none, then _parse_header.                     *)

FlipBit(bytes, bit) == [bytes EXCEPT ![(bit \div 8) + 1] = BitXor(@, 2 ^ (bit % 8))]

HeaderInit ==
    /\ pfx_pc = "header_args"
    /\ pfx_in \in [self : Storages, data : Files, bit : {-1}]
    /\ pfx_out = <<>>
    /\ pfx_info = None
    /\ CodecIdle

CreateHeader ==
    /\ pfx_pc = "header_args"
    /\ \E hdr \in {FileHeader(pfx_in.self, pfx_in.data)} :
           /\ pfx_pc' = IF hdr.ok THEN "header" ELSE "raised"
           /\ pfx_out' = hdr.val
    /\ UNCHANGED <<pfx_in, pfx_info>>
    /\ UNCHANGED codec_vars

FlipHeaderBit ==
    /\ pfx_pc = "header"
    /\ \E bit \in 0..159 :
           /\ pfx_out' = FlipBit(pfx_out, bit)
           /\ pfx_in' = [pfx_in EXCEPT !.bit = bit]
    /\ pfx_pc' = "flipped"
    /\ UNCHANGED pfx_info
    /\ UNCHANGED codec_vars

ParseHeader ==
    /\ pfx_pc \in {"header", "flipped"}
    /\ pfx_info' = _parse_header(pfx_out)
    /\ pfx_pc' = IF pfx_pc = "header" THEN "header_parsed" ELSE "flipped_parsed"
    /\ UNCHANGED <<pfx_in, pfx_out>>
    /\ UNCHANGED codec_vars

HeaderNext == CreateHeader \/ FlipHeaderBit \/ ParseHeader

SpecHeader == HeaderInit /\ [][HeaderNext]_vars

----------------------------------------------------------------------------
(* The re-seed search alone: _encode_with_constraints on drawn bytes.      *)

(* Every single byte, the strings of up to MaxFileLen bytes over DataBytes *)
(* and the RS data bytes of the one-byte file "2".                         *)
ReseedInputs ==
    {<<b>> : b \in 0..255} \cup Files \cup {<<50, 13, 190, 213, 26>>}

ReseedInit ==
    /\ pfx_pc = "bytes"
    /\ pfx_in \in [b : ReseedInputs]
    /\ pfx_out = <<>>
    /\ pfx_info = None
    /\ CodecIdle

EncodeWithConstraints ==
    /\ pfx_pc = "bytes"
    /\ pfx_out' = _encode_with_constraints(pfx_in.b)
    /\ pfx_pc' = "reseeded"
    /\ UNCHANGED <<pfx_in, pfx_info>>
    /\ UNCHANGED codec_vars

SpecReseed == ReseedInit /\ [][EncodeWithConstraints]_vars

----------------------------------------------------------------------------
(* The consensus alone: DNAStorage._consensus on a drawn list of reads,    *)
(* then utils.functions.consensus.consensus (the same code) on that list.  *)

MaxReadLen == 2
ReadCounts == 0..3

ConsensusReads == UNION {[1..n -> {"A", "C", "G"}] : n \in 0..MaxReadLen}

ConsensusInit ==
    /\ pfx_pc = "reads"
    /\ pfx_in \in [reads : UNION {[1..n -> ConsensusReads] : n \in ReadCounts}]
    /\ pfx_out = <<>>
    /\ pfx_info = None
    /\ CodecIdle

Consensus ==
    /\ pfx_pc = "reads"
    /\ pfx_out' = _consensus(pfx_in.reads)
    /\ pfx_pc' = "consensus"
    /\ UNCHANGED <<pfx_in, pfx_info>>
    /\ UNCHANGED codec_vars

ConsensusAgain ==
    /\ pfx_pc = "consensus"
    /\ pfx_info' = _consensus(pfx_in.reads)
    /\ pfx_pc' = "consensus_again"
    /\ UNCHANGED <<pfx_in, pfx_out>>
    /\ UNCHANGED codec_vars

ConsensusNext == Consensus \/ ConsensusAgain

SpecConsensus == ConsensusInit /\ [][ConsensusNext]_vars

----------------------------------------------------------------------------
(* The constructor, then the codec run: DNAStorage(...) is called with     *)
(* drawn arguments, among them arguments at and beyond the RS limit and    *)
(* zero or negative ones; an object that was built encodes the file, the   *)
(* header copies may be replaced by a forged header, and the list is       *)
(* decoded.                                                                *)

CtorArgs ==
    {DNAStorage(1, 1, 2, 120), DNAStorage(2, 2, 2, 18),
     DNAStorage(249, 1, 2, 120), DNAStorage(250, 1, 2, 120), DNAStorage(250, 1, 10, 120),
     DNAStorage(0, 1, 2, 120), DNAStorage(-1, 1, 2, 120),
     DNAStorage(1, 1, 2, 0), DNAStorage(1, 1, 2, -5),
     DNAStorage(1, 0, 2, 120), DNAStorage(1, 1, -1, 120),
     DNAStorage(1, 1, 40, 1)}

InitConstruct ==
    /\ codec \in CtorArgs
    /\ file \in Files
    /\ oligos = <<>>
    /\ received = <<>>
    /\ channel = [kind |-> "clean", chunk |-> 0]
    /\ result = Failure
    /\ pc = "args"
    /\ PrefixIdle

(* DNAStorage.__init__: the object exists unless the RS check raises.      *)
Construct ==
    /\ pc = "args"
    /\ pc' = IF ConstructorAccepts(codec) THEN "new" ELSE "rejected"
    /\ UNCHANGED <<codec, file, oligos, received, channel, result>>
    /\ UNCHANGED prefix_vars

NextConstruct == Construct \/ EncodeFile \/ ForgeHeader \/ DecodeSequences

SpecConstruct == InitConstruct /\ [][NextConstruct]_vars

----------------------------------------------------------------------------
(* Properties of the codec run                                             *)

Returned(ok, bytes) == [ok |-> ok, bytes |-> bytes]

(* The chunks of the file and, for chunk c, the RS data and parity bytes   *)
(* the encoder turns into DNA.                                             *)
NumChunks == Len(Chunks(codec, file))
ChunkDataRs(c) ==
    DataRs(ChunkCodeword(codec, Chunks(codec, file)[c]), Len(Chunks(codec, file)[c]) + Crc32Len)
ChunkParityRs(c) ==
    ParityRs(ChunkCodeword(codec, Chunks(codec, file)[c]), Len(Chunks(codec, file)[c]) + Crc32Len)

(* C1 -- clean-channel round trip: decode_sequences on the unmodified list *)
(* returned by encode_file for the file returns (True, file).              *)
CleanRoundTrip ==
    (pc = "decoded" /\ channel.kind = "clean") => result = Returned(TRUE, file)

(* C2 -- start-base agreement: for every chunk the data DNA and the parity *)
(* DNA cut into oligos are the Goldman encodings from start base A of the  *)
(* RS data bytes and the RS parity bytes, and the decoder's Goldman decode *)
(* from start A of the re-concatenated segments returns those bytes.       *)
StartBaseAgreement ==
    (pc = "encoded" /\ channel.kind = "clean") =>
        \A c \in 1..NumChunks :
            LET data_seq == KindSeq(ParsedReads(oligos), "D", c)
                parity_seq == KindSeq(ParsedReads(oligos), "P", c)
            IN  /\ data_seq = bytes_to_dna_goldman(ChunkDataRs(c), "A")
                /\ parity_seq = bytes_to_dna_goldman(ChunkParityRs(c), "A")
                /\ ChunkBytes(data_seq) = [ok |-> TRUE, val |-> ChunkDataRs(c)]
                /\ ChunkBytes(parity_seq) = [ok |-> TRUE, val |-> ChunkParityRs(c)]

(* C3 -- order independence: decode_sequences on a permutation of the list *)
(* returned by encode_file for the file returns (True, file).              *)
OrderIndependence ==
    (pc = "decoded" /\ channel.kind = "permuted") => result = Returned(TRUE, file)

(* C4 -- replicate resilience: with copies of data and parity oligos       *)
(* removed, at least one copy of each surviving and the header copies      *)
(* untouched, decode_sequences returns (True, file).                       *)
ReplicateResilience ==
    (pc = "decoded" /\ channel.kind = "thinned") => result = Returned(TRUE, file)

(* C5 -- chunk loss is never silent: with every data and parity oligo of   *)
(* one chunk index removed, decode_sequences returns (False, b""); the     *)
(* chunk is absent from the buffer, which is shorter than the file and is  *)
(* rejected by the digest comparison.                                      *)
ChunkLossNotSilent ==
    (pc = "decoded" /\ channel.kind = "dropped") =>
        LET parsed == ParsedReads(received)
            header == HeaderOf(parsed)
            buffer == ReconstructedFile(parsed, header.val)
        IN  /\ result = Failure
            /\ header.ok
            /\ \A k \in 1..Len(parsed) :
                   parsed[k].seq_type = "H" \/ parsed[k].chunk_idx # channel.chunk
            /\ Len(buffer) < Len(file)
            /\ ~DigestOk(buffer, header.val.checksum8)

(* A chunk was dropped from a file of two chunks or more, the decoder      *)
(* rebuilt a non-empty part of the file and returned (False, b"").         *)
ChunkLossWitness ==
    /\ pc = "decoded"
    /\ channel.kind = "dropped"
    /\ NumChunks >= 2
    /\ Len(ReconstructedFile(ParsedReads(received), HeaderOf(ParsedReads(received)).val)) >= 1
    /\ result = Failure

----------------------------------------------------------------------------
(* Properties of the decoder on arbitrary lists                            *)

(* C6 -- decoder outcome: decode_sequences returns either (False, b"") or  *)
(* (True, B) with |B| <= file_size of the consensus header and             *)
(* SHA256(B)[:8] equal to that header's checksum8; never ok = False with   *)
(* non-empty bytes.                                                        *)
DecoderOutcome ==
    pc = "decoded" =>
        \/ result = Failure
        \/ /\ result.ok
           /\ LET header == HeaderOf(ParsedReads(received))
              IN  /\ header.ok
                  /\ Len(result.bytes) <= header.val.file_size
                  /\ SubSeq(sha256(result.bytes), 1, 8) = header.val.checksum8

(* On a noisy list the decoder returned (True, B) for a B that is not the  *)
(* encoded file.                                                           *)
DecoderAcceptsForgedWitness ==
    /\ pc = "decoded"
    /\ channel.kind = "noisy"
    /\ result.ok
    /\ result.bytes # file

----------------------------------------------------------------------------
(* Properties of the encoder output                                        *)

(* The header oligo carries the Goldman DNA of the 22 header bytes, six    *)
(* bases per byte, in one piece.                                           *)
HeaderOligoLen == PrefixLen + (6 * HeaderLen)

(* C7 (as the spec states it) -- every string returned by encode_file, the *)
(* header oligo included, has at most 80 + segment_nt bases.               *)
OligoLengthBound ==
    pc = "encoded" => \A k \in 1..Len(oligos) : Len(oligos[k]) <= PrefixLen + codec.segment_nt

(* C7 -- every data and parity oligo returned by encode_file has at most   *)
(* 80 + segment_nt bases; every header oligo has exactly 80 + 132 bases,   *)
(* whatever segment_nt is.                                                 *)
OligoLengthBoundExceptHeader ==
    pc = "encoded" =>
        \A k \in 1..Len(oligos) :
            IF IsHeaderOligo(oligos[k])
            THEN Len(oligos[k]) = HeaderOligoLen
            ELSE /\ Len(oligos[k]) > PrefixLen
                 /\ Len(oligos[k]) <= PrefixLen + codec.segment_nt

(* segment_nt is below 132: a data oligo fills its segment and the header  *)
(* oligo is longer than 80 + segment_nt.                                   *)
OligoLengthWitness ==
    /\ pc = "encoded"
    /\ codec.segment_nt < 6 * HeaderLen
    /\ Len(oligos[1]) > PrefixLen + codec.segment_nt
    /\ \E k \in 1..Len(oligos) :
           ~IsHeaderOligo(oligos[k]) /\ Len(oligos[k]) = PrefixLen + codec.segment_nt

(* The prefix fields of every oligo, in list order, and from them the      *)
(* distinct oligos and the seq_idx values of one type in one chunk.        *)
OligoInfos == List([k \in 1..Len(oligos) |-> _parse_prefix(oligos[k])])
OligosOf(infos, kind, c) ==
    {oligos[k] : k \in {j \in 1..Len(infos) : infos[j].seq_type = kind /\ infos[j].chunk_idx = c}}
SeqIdxOf(infos, kind, c) ==
    {infos[k].seq_idx : k \in {j \in 1..Len(infos) :
                                  infos[j].seq_type = kind /\ infos[j].chunk_idx = c}}
CeilDiv(a, b) == (a + b - 1) \div b

(* C8 -- addressing: every emitted oligo starts with "AG" and is accepted  *)
(* by _parse_prefix; the header oligos are exactly those of type H, with   *)
(* chunk_idx 0, seq_idx 0, total_seqs 1 and total_chunks =                 *)
(* ceil(file_size / chunk_size); every other oligo has chunk_idx in        *)
(* 1..num_chunks and total_chunks = num_chunks; in a chunk with nd data    *)
(* and np parity segments the D oligos use seq_idx 0..nd-1, the P oligos   *)
(* nd..nd+np-1, all carry total_seqs = nd + np; and two oligos with the    *)
(* same (chunk_idx, seq_idx) are the same string.                          *)
AddressingInvariant ==
    pc = "encoded" =>
        LET num_chunks == CeilDiv(Len(file), codec.chunk_size)
            headers == codec.redundancy * HeaderCopiesFactor
            infos == OligoInfos
            nd == List([c \in 1..num_chunks |-> Cardinality(OligosOf(infos, "D", c))])
            np == List([c \in 1..num_chunks |-> Cardinality(OligosOf(infos, "P", c))])
        IN  /\ \A k \in 1..Len(oligos) :
                   /\ Slice(oligos[k], 0, 2) = <<"A", "G">>
                   /\ infos[k].some
                   /\ (infos[k].seq_type = "H") <=> (k <= headers)
                   /\ infos[k].total_chunks = num_chunks
                   /\ IF infos[k].seq_type = "H"
                      THEN /\ infos[k].chunk_idx = 0
                           /\ infos[k].seq_idx = 0
                           /\ infos[k].total_seqs = 1
                           /\ oligos[k] = oligos[1]
                      ELSE /\ infos[k].chunk_idx \in 1..num_chunks
                           /\ infos[k].total_seqs
                                  = nd[infos[k].chunk_idx] + np[infos[k].chunk_idx]
            /\ \A c \in 1..num_chunks :
                   /\ nd[c] >= 1
                   /\ np[c] >= 1
                   /\ SeqIdxOf(infos, "D", c) = 0..(nd[c] - 1)
                   /\ SeqIdxOf(infos, "P", c) = nd[c]..(nd[c] + np[c] - 1)
            /\ \A k, j \in 1..Len(oligos) :
                   (/\ infos[k].chunk_idx = infos[j].chunk_idx
                    /\ infos[k].seq_idx = infos[j].seq_idx) => oligos[k] = oligos[j]

(* A file of two chunks, each cut into several data and several parity     *)
(* oligos.                                                                 *)
AddressingWitness ==
    /\ pc = "encoded"
    /\ CeilDiv(Len(file), codec.chunk_size) = 2
    /\ Cardinality(OligosOf(OligoInfos, "D", 2)) >= 2
    /\ Cardinality(OligosOf(OligoInfos, "P", 2)) >= 2

(* The list is laid out in blocks of redundancy reads after the header     *)
(* copies; BlockStart(b) is the position of the first read of block b.     *)
(* KeyLess orders prefix fields by chunk_idx, then type (D before P), then *)
(* seq_idx.                                                                *)
BlockStart(b) == (codec.redundancy * HeaderCopiesFactor) + (codec.redundancy * (b - 1)) + 1
KeyLess(x, y) ==
    \/ x.chunk_idx < y.chunk_idx
    \/ /\ x.chunk_idx = y.chunk_idx
       /\ \/ x.seq_type = "D" /\ y.seq_type = "P"
          \/ x.seq_type = y.seq_type /\ x.seq_idx < y.seq_idx

(* The sum over the chunks 1..n of the total_seqs their oligos carry.      *)
RECURSIVE SumTotalSeqs(_, _)
SumTotalSeqs(infos, n) ==
    IF n = 0 THEN 0
    ELSE SumTotalSeqs(infos, n - 1)
         + (CHOOSE t \in {infos[k].total_seqs : k \in {j \in 1..Len(infos) :
                              infos[j].seq_type # "H" /\ infos[j].chunk_idx = n}} : TRUE)

(* C9 -- shape of the list: 2 * redundancy copies of the header oligo,     *)
(* then, for chunk_idx ascending, redundancy consecutive identical copies  *)
(* of each data oligo in ascending seq_idx and then of each parity oligo   *)
(* in ascending seq_idx; the length is 2 * redundancy + redundancy * (sum  *)
(* over the chunks of total_seqs).                                         *)
OutputShape ==
    pc = "encoded" =>
        LET r == codec.redundancy
            infos == OligoInfos
            blocks == SumTotalSeqs(infos, NumChunks)
        IN  /\ Len(oligos) = (2 * r) + (r * blocks)
            /\ \A k \in 1..(2 * r) : infos[k].seq_type = "H" /\ oligos[k] = oligos[1]
            /\ \A b \in 1..blocks :
                   /\ infos[BlockStart(b)].seq_type \in {"D", "P"}
                   /\ \A i \in 0..(r - 1) : oligos[BlockStart(b) + i] = oligos[BlockStart(b)]
            /\ \A b \in 1..(blocks - 1) : KeyLess(infos[BlockStart(b)], infos[BlockStart(b + 1)])
            /\ blocks > 0 => /\ infos[BlockStart(1)].chunk_idx = 1
                             /\ infos[BlockStart(blocks)].chunk_idx = NumChunks

(* Three copies of every oligo of a file of two chunks.                    *)
OutputShapeWitness ==
    /\ pc = "encoded"
    /\ codec.redundancy = 3
    /\ NumChunks = 2
    /\ Len(oligos) >= 6 + (3 * 4)

----------------------------------------------------------------------------
(* Properties of the prefix                                                *)

PrefixArgsValid ==
    /\ pfx_in.seq_type \in {"H", "D", "P"}
    /\ pfx_in.chunk_idx \in 0..(2 ^ 24 - 1)
    /\ pfx_in.total_chunks \in 0..(2 ^ 24 - 1)
    /\ pfx_in.seq_idx \in 0..1023
    /\ pfx_in.total_seqs \in 0..1023

(* C10 -- prefix round trip: for seq_type in {H, D, P}, chunk_idx and      *)
(* total_chunks in 0..2^24-1, seq_idx and total_seqs in 0..1023 and any    *)
(* payload p, _create_prefix returns exactly 80 bases and                  *)
(* _parse_prefix(prefix + p) returns these five values with payload = p.   *)
PrefixRoundTrip ==
    (pfx_pc # "idle" /\ PrefixArgsValid) =>
        /\ pfx_pc # "raised"
        /\ pfx_pc \in {"created", "parsed"} => Len(pfx_out) = PrefixLen
        /\ pfx_pc = "parsed" =>
               pfx_info = [some |-> TRUE,
                           seq_type |-> pfx_in.seq_type,
                           chunk_idx |-> pfx_in.chunk_idx,
                           total_chunks |-> pfx_in.total_chunks,
                           seq_idx |-> pfx_in.seq_idx,
                           total_seqs |-> pfx_in.total_seqs,
                           payload |-> pfx_in.payload]

(* The largest field values with a non-empty payload went through both.    *)
PrefixRoundTripWitness ==
    /\ pfx_pc = "parsed"
    /\ pfx_info.some
    /\ pfx_in.chunk_idx = 2 ^ 24 - 1
    /\ pfx_in.seq_idx = 1023
    /\ pfx_in.total_seqs = 1023
    /\ Len(pfx_in.payload) = 3

(* C11 -- prefix field range check: _create_prefix raises, and returns no   *)
(* prefix, whenever chunk_idx or total_chunks is outside 0..2^24-1,        *)
(* seq_idx or total_seqs is outside 0..1023, or seq_type is not H, D or P. *)
PrefixFieldRangeCheck ==
    (pfx_pc # "args" /\ ~PrefixArgsValid) => (pfx_pc = "raised" /\ pfx_out = <<>>)

(* _create_prefix was called with chunk_idx = 16777216, every other        *)
(* argument being in range, and raised.                                    *)
PrefixFieldRangeWitness ==
    /\ pfx_pc = "raised"
    /\ pfx_in.chunk_idx = 16777216
    /\ pfx_in.seq_type \in {"H", "D", "P"}
    /\ pfx_in.total_chunks \in 0..(2 ^ 24 - 1)
    /\ pfx_in.seq_idx \in 0..1023
    /\ pfx_in.total_seqs \in 0..1023

(* C15 -- scenario S3: _parse_prefix returns None for every read made of   *)
(* AG, AA, 76 T and garbage, so that the read is dropped before the header *)
(* consensus and the chunk grouping.                                       *)
ZeroReadRejected ==
    (pfx_pc = "read_parsed" /\ Slice(pfx_out, 0, PrefixLen) = Slice(ZeroRead, 0, PrefixLen))
        => pfx_info = None

(* The prefix of a read as the layout states it: bit k of the C/T block    *)
(* (k = 1 for base 4) is 1 for a C and 0 otherwise; an integer of the      *)
(* block is read most significant bit first; the 68 field bits are packed  *)
(* into 9 bytes, most significant bit first, the last 4 bits being zero.   *)
LayoutBit(read, k) == IF read[4 + k] = "C" THEN 1 ELSE 0

RECURSIVE LayoutInt(_, _, _)
LayoutInt(read, lo, hi) ==
    IF lo > hi THEN 0 ELSE (LayoutBit(read, lo) * (2 ^ (hi - lo))) + LayoutInt(read, lo + 1, hi)

RECURSIVE LayoutByte(_, _, _)
LayoutByte(read, k, j) ==
    IF j > 8 THEN 0
    ELSE ((IF (8 * (k - 1)) + j <= 68 THEN LayoutBit(read, (8 * (k - 1)) + j) ELSE 0) * (2 ^ (8 - j)))
         + LayoutByte(read, k, j + 1)

LayoutInfo(read) ==
    IF \/ Len(read) < 80
       \/ <<read[1], read[2]>> # <<"A", "G">>
       \/ <<read[3], read[4]>> \notin {<<"A", "A">>, <<"C", "C">>, <<"G", "G">>}
       \/ crc8([k \in 1..9 |-> LayoutByte(read, k, 1)]) # LayoutInt(read, 69, 76)
    THEN None
    ELSE [some |-> TRUE,
          seq_type |-> IF read[3] = "A" THEN "H" ELSE IF read[3] = "C" THEN "D" ELSE "P",
          chunk_idx |-> LayoutInt(read, 1, 24),
          total_chunks |-> LayoutInt(read, 25, 48),
          seq_idx |-> LayoutInt(read, 49, 58),
          total_seqs |-> LayoutInt(read, 59, 68),
          payload |-> SubSeq(read, 81, Len(read))]

(* C18 -- _parse_prefix returns None exactly when the read is shorter than *)
(* 80 bases, or does not begin with AG, or has a type code other than AA,  *)
(* CC, GG, or the CRC-8 of the packed field bits differs from the 8 bits   *)
(* at bases 72..79; otherwise it returns the type, the four integers of    *)
(* 24, 24, 10 and 10 bits in the order chunk_idx, total_chunks, seq_idx,   *)
(* total_seqs, and payload = read[80:].                                    *)
ParsePrefixAcceptance ==
    pfx_pc = "read_parsed" => pfx_info = LayoutInfo(pfx_out)

(* A read of 80 bases or more with the sync word and a known type code was *)
(* rejected: its CRC-8 did not match.                                      *)
ParsePrefixCrcWitness ==
    /\ pfx_pc = "read_parsed"
    /\ pfx_info = None
    /\ Len(pfx_out) >= 80
    /\ <<pfx_out[1], pfx_out[2]>> = <<"A", "G">>
    /\ <<pfx_out[3], pfx_out[4]>> \in {<<"A", "A">>, <<"C", "C">>, <<"G", "G">>}

----------------------------------------------------------------------------
(* Properties of the constructor and of the parameters                     *)

(* The header bytes the decoder obtains from the header reads of the list. *)
ReceivedHeaderBytes ==
    dna_to_bytes_goldman(_consensus(HeaderReads(ParsedReads(received))), "A")

(* The received header is complete, its CRC-16 is valid and its            *)
(* chunk_size + 4 + nsym is above 255.                                     *)
ReceivedHeaderBeyondRsLimit ==
    /\ Len(HeaderReads(ParsedReads(received))) > 0
    /\ ReceivedHeaderBytes.ok
    /\ Len(ReceivedHeaderBytes.val) >= 22
    /\ _crc16_ccitt(SubSeq(ReceivedHeaderBytes.val, 1, 20))
           = ReceivedHeaderBytes.val[21] + (256 * ReceivedHeaderBytes.val[22])
    /\ (ReceivedHeaderBytes.val[9] + (256 * ReceivedHeaderBytes.val[10])) + 4
           + ReceivedHeaderBytes.val[11] > 255

(* C12 -- the RS length limit is checked on both sides: the constructor    *)
(* raises exactly when chunk_size + 4 + nsym > 255, and a header with a    *)
(* valid CRC-16 whose chunk_size + 4 + nsym > 255 is rejected by           *)
(* _parse_header, decode_sequences returning (False, b"").                 *)
RsLimitBothSides ==
    /\ pc # "args" =>
           (pc = "rejected" <=> codec.chunk_size + 4 + codec.error_correction > 255)
    /\ (pc = "decoded" /\ ReceivedHeaderBeyondRsLimit) =>
           /\ ~_parse_header(ReceivedHeaderBytes.val).ok
           /\ result = Failure

(* An object that the constructor accepted decoded a list whose header has *)
(* a valid CRC-16 and parameters beyond the RS limit.                      *)
RsLimitWitness ==
    /\ pc = "decoded"
    /\ channel.kind = "noisy"
    /\ ReceivedHeaderBeyondRsLimit
    /\ codec.chunk_size + 4 + codec.error_correction = 255
    /\ Len(file) >= 1

(* Number of segments of chunk c: total_seqs of encode_file.               *)
ChunkTotalSeqs(c) ==
    Len(DataSegments(codec, ChunkCodeword(codec, Chunks(codec, file)[c]),
                     Len(Chunks(codec, file)[c]) + Crc32Len))
    + Len(ParitySegments(codec, ChunkCodeword(codec, Chunks(codec, file)[c]),
                         Len(Chunks(codec, file)[c]) + Crc32Len))

(* Some chunk of the file yields 256 segments or more.                     *)
TooManySegments ==
    /\ codec.chunk_size >= 1
    /\ codec.segment_nt >= 1
    /\ codec.error_correction >= 0
    /\ \E c \in 1..NumChunks : ChunkTotalSeqs(c) >= 256

(* C17 -- the encoder validates eagerly: for parameters the constructor    *)
(* accepts, encode_file either returns an oligo list or raises, and it     *)
(* raises exactly when some chunk yields 256 segments or more; no list is  *)
(* returned when it raises.                                                *)
EncoderValidatesEagerly ==
    pc \in {"raised", "encoded", "decoded"} =>
        /\ pc = "raised" <=> TooManySegments
        /\ pc = "raised" => oligos = <<>>

----------------------------------------------------------------------------
(* Properties of the Goldman code                                          *)

(* C13 -- Goldman bijection: for every byte string b and every start base, *)
(* dna_to_bytes_goldman(bytes_to_dna_goldman(b, start), start) = b, and    *)
(* the DNA has exactly 6 bases per byte.                                   *)
GoldmanBijection ==
    /\ pfx_pc \in {"dna", "bytes_again"} => Len(pfx_out) = 6 * Len(pfx_in.data)
    /\ pfx_pc = "bytes_again" => pfx_info = [ok |-> TRUE, val |-> pfx_in.data]

(* Two bytes, the largest one first, went through both directions with the *)
(* start base T.                                                           *)
GoldmanBijectionWitness ==
    /\ pfx_pc = "bytes_again"
    /\ pfx_in.start = "T"
    /\ Len(pfx_in.data) = 2
    /\ pfx_in.data[1] = 255
    /\ pfx_info.ok

(* C14 -- no Goldman homopolymer: bytes_to_dna_goldman(b, start) has no    *)
(* two consecutive identical bases and its first base differs from start.  *)
NoGoldmanHomopolymer ==
    pfx_pc \in {"dna", "bytes_again"} =>
        /\ \A i \in 1..(Len(pfx_out) - 1) : pfx_out[i] # pfx_out[i + 1]
        /\ Len(pfx_out) > 0 => pfx_out[1] # pfx_in.start

(* The bytes 0, 0 (twelve equal trits) were encoded from the start base A. *)
NoGoldmanHomopolymerWitness ==
    /\ pfx_pc = "dna"
    /\ pfx_in.data = <<0, 0>>
    /\ pfx_in.start = "A"
    /\ Len(pfx_out) = 12

----------------------------------------------------------------------------
(* Properties of the file header                                           *)

(* C16 -- header CRC-16 detection: for every header produced by            *)
(* _create_header, flipping any single one of the 160 bits of bytes 0..19  *)
(* makes _parse_header raise; the header as produced is parsed.            *)
HeaderCrcDetection ==
    /\ pfx_pc = "flipped_parsed" => ~pfx_info.ok
    /\ pfx_pc = "header_parsed" =>
           /\ pfx_info.ok
           /\ pfx_info.val.file_size = Len(pfx_in.data)
           /\ pfx_info.val.chunk_size = pfx_in.self.chunk_size
           /\ pfx_info.val.nsym = pfx_in.self.error_correction

(* The highest bit of byte 19, the last byte under the CRC-16, was flipped *)
(* in the header of a non-empty file and _parse_header raised.             *)
HeaderCrcDetectionWitness ==
    /\ pfx_pc = "flipped_parsed"
    /\ pfx_in.bit = 159
    /\ Len(pfx_in.data) >= 1
    /\ Len(pfx_out) = HeaderLen
    /\ ~pfx_info.ok

----------------------------------------------------------------------------
(* Properties of the helpers                                               *)

(* The constraint predicate as stated: a non-empty string with no run of   *)
(* four equal bases and a share of G and C between 40 % and 60 %.          *)
WithinConstraints(dna) ==
    /\ Len(dna) > 0
    /\ \A i \in 1..(Len(dna) - 3) :
           ~(dna[i] = dna[i + 1] /\ dna[i] = dna[i + 2] /\ dna[i] = dna[i + 3])
    /\ 40 * Len(dna) <= 100 * Cardinality({i \in 1..Len(dna) : dna[i] \in {"C", "G"}})
    /\ 100 * Cardinality({i \in 1..Len(dna) : dna[i] \in {"C", "G"}}) <= 60 * Len(dna)

SeedOrder == <<"A", "C", "G", "T">>

(* C19 -- re-seed search: _encode_with_constraints(b) is the Goldman       *)
(* encoding of b for the first start base, in the order A, C, G, T, whose  *)
(* DNA passes the constraint predicate, and the encoding from A if none    *)
(* passes.                                                                 *)
ReseedSearch ==
    pfx_pc = "reseeded" =>
        \/ \E k \in 1..4 :
               /\ pfx_out = bytes_to_dna_goldman(pfx_in.b, SeedOrder[k])
               /\ WithinConstraints(pfx_out)
               /\ \A j \in 1..(k - 1) :
                      ~WithinConstraints(bytes_to_dna_goldman(pfx_in.b, SeedOrder[j]))
        \/ /\ \A k \in 1..4 : ~WithinConstraints(bytes_to_dna_goldman(pfx_in.b, SeedOrder[k]))
           /\ pfx_out = bytes_to_dna_goldman(pfx_in.b, "A")

(* The start base A fails and C passes for the RS data bytes of the file   *)
(* "2": the result is the encoding from C.                                 *)
ReseedSearchWitness ==
    /\ pfx_pc = "reseeded"
    /\ pfx_in.b = <<50, 13, 190, 213, 26>>
    /\ ~WithinConstraints(bytes_to_dna_goldman(pfx_in.b, "A"))
    /\ WithinConstraints(bytes_to_dna_goldman(pfx_in.b, "C"))
    /\ pfx_out = bytes_to_dna_goldman(pfx_in.b, "C")

(* The reads that have a base at column i, the number of them with base x  *)
(* there, and the first of them with base x there.                         *)
ColumnReads(reads, i) == {k \in 1..Len(reads) : Len(reads[k]) >= i}
ColumnCount(reads, i, x) == Cardinality({k \in ColumnReads(reads, i) : reads[k][i] = x})
FirstSeen(reads, i, x) ==
    CHOOSE k \in ColumnReads(reads, i) :
        reads[k][i] = x /\ \A j \in ColumnReads(reads, i) : reads[j][i] = x => k <= j

(* C20 -- consensus: consensus([]) = "", consensus([r]) = r; for two reads *)
(* or more the result has the length of the longest read and holds, at     *)
(* each column, the base with the highest count among the reads that have  *)
(* the column, a tie going to the tied base first in read order; a second  *)
(* call on the same list returns the same string.                          *)
ConsensusDefinition ==
    pfx_pc \in {"consensus", "consensus_again"} =>
        /\ Len(pfx_in.reads) = 0 => pfx_out = <<>>
        /\ Len(pfx_in.reads) = 1 => pfx_out = pfx_in.reads[1]
        /\ Len(pfx_in.reads) >= 2 =>
               /\ \A k \in 1..Len(pfx_in.reads) : Len(pfx_in.reads[k]) <= Len(pfx_out)
               /\ \E k \in 1..Len(pfx_in.reads) : Len(pfx_in.reads[k]) = Len(pfx_out)
               /\ \A i \in 1..Len(pfx_out) :
                      /\ ColumnCount(pfx_in.reads, i, pfx_out[i]) >= 1
                      /\ \A k \in ColumnReads(pfx_in.reads, i) :
                             \/ ColumnCount(pfx_in.reads, i, pfx_in.reads[k][i])
                                    < ColumnCount(pfx_in.reads, i, pfx_out[i])
                             \/ /\ ColumnCount(pfx_in.reads, i, pfx_in.reads[k][i])
                                       = ColumnCount(pfx_in.reads, i, pfx_out[i])
                                /\ FirstSeen(pfx_in.reads, i, pfx_out[i])
                                       <= FirstSeen(pfx_in.reads, i, pfx_in.reads[k][i])
        /\ pfx_pc = "consensus_again" => pfx_info = pfx_out

(* Three reads of different lengths whose first column is a three-way tie  *)
(* won by the base of the first read, G.                                   *)
ConsensusWitness ==
    /\ pfx_pc = "consensus_again"
    /\ pfx_in.reads = <<<<"G">>, <<"A", "C">>, <<"C">>>>
    /\ pfx_out = <<"G", "C">>

----------------------------------------------------------------------------
(* Properties of the chunk loop of decode_sequences                        *)

(* Some D or P read is addressed to chunk ci.                              *)
ChunkInMap(parsed, ci) ==
    \E k \in 1..Len(parsed) : parsed[k].seq_type # "H" /\ parsed[k].chunk_idx = ci

(* The RS-decoded message, or the raw data bytes when RS decoding fails.   *)
GateMessage(rs, data_bytes) == [ok |-> TRUE, val |-> IF rs.ok THEN rs.val ELSE data_bytes]

(* The decoded bytes of a chunk; Raised when a Goldman decoding fails.     *)
GateDecoded(data_bytes_rs, parity_bytes_rs, nsym) ==
    IF ~data_bytes_rs.ok \/ ~parity_bytes_rs.ok THEN Raised
    ELSE GateMessage(RsDecode(data_bytes_rs.val \o parity_bytes_rs.val, nsym), data_bytes_rs.val)

DecodedOf(parsed, ci, nsym) ==
    GateDecoded(ChunkBytes(KindSeq(parsed, "D", ci)), ChunkBytes(KindSeq(parsed, "P", ci)), nsym)

(* The length test and the CRC test on decoded bytes: the last four bytes  *)
(* are the little-endian CRC-32 of the bytes before them.                  *)
GatePasses(decoded) ==
    /\ Len(decoded) >= 4
    /\ Word32ToBytesLE(crc32(Slice(decoded, 0, Len(decoded) - 4)))
           = Slice(decoded, Len(decoded) - 4, Len(decoded))

(* What a chunk with these decoded bytes adds to the reconstruction        *)
(* buffer.                                                                 *)
GateContribution(decoded) ==
    IF decoded.ok /\ GatePasses(decoded.val)
    THEN Slice(decoded.val, 0, Len(decoded.val) - 4)
    ELSE <<>>

(* The buffer the gate lets through, chunk after chunk, cut to file_size.  *)
GatedBuffer(parsed, cis, header) ==
    Slice(Join(List([k \in 1..Len(cis) |->
                        GateContribution(DecodedOf(parsed, cis[k], header.nsym))])),
          0, header.file_size)

(* The gate on one chunk of chunks_map: the loop body appends bytes only   *)
(* when the gate passes, and what it appends is what the gate lets through. *)
GateOnChunk(chunk, decoded) ==
    /\ chunk.ok => (decoded.ok /\ GatePasses(decoded.val))
    /\ PayloadOrNothing(chunk) = GateContribution(decoded)

GateOnBuffer(parsed, header, buffer) ==
    /\ \A ci \in 1..NumChunks :
           (ChunkInMap(parsed, ci) /\ ci <= header.num_chunks) =>
               GateOnChunk(DecodeChunk(parsed, ci, header.nsym),
                           DecodedOf(parsed, ci, header.nsym))
    /\ ReconstructedFile(parsed, header) = buffer
    /\ result = DigestVerdict(buffer, header.checksum8)

GateOnReads(parsed, header) ==
    (Len(parsed) > 0 /\ header.ok) =>
        GateOnBuffer(parsed, header.val,
                     GatedBuffer(parsed, PresentChunks(parsed, header.val.num_chunks), header.val))

(* C21 -- per-chunk CRC-32 gate: a chunk adds bytes to the reconstruction  *)
(* buffer only if its decoded bytes (the RS-decoded message, or the raw    *)
(* data bytes when RS decoding fails) have four bytes or more and the      *)
(* CRC-32 of all but the last four equals the last four read little-endian *)
(* ; a chunk that fails Goldman decoding, the length test or the CRC test  *)
(* adds nothing, and the decoder goes on to the next chunk index: the      *)
(* result is the verdict of the digest on the buffer of the passing chunks.*)
ChunkCrcGate ==
    pc = "decoded" => GateOnReads(ParsedReads(received), HeaderOf(ParsedReads(received)))

(* Of two chunks received, one failed the gate and added nothing, the      *)
(* other passed and its bytes are in the buffer.                           *)
ChunkCrcGateWitness ==
    /\ pc = "decoded"
    /\ Len(ParsedReads(received)) > 0
    /\ HeaderOf(ParsedReads(received)).ok
    /\ \E ci, cj \in 1..NumChunks :
           LET parsed == ParsedReads(received)
               nsym == HeaderOf(parsed).val.nsym
           IN  /\ ChunkInMap(parsed, ci)
               /\ ChunkInMap(parsed, cj)
               /\ ~DecodeChunk(parsed, ci, nsym).ok
               /\ DecodeChunk(parsed, cj, nsym).ok
               /\ Len(ReconstructedFile(parsed, HeaderOf(parsed).val)) >= 1

----------------------------------------------------------------------------
(* Properties of the reads _parse_prefix accepts                           *)

(* C22 -- accepted prefixes are canonical: whenever _parse_prefix returns  *)
(* a record for a read, the first 80 bases of the read are _create_prefix  *)
(* of the returned seq_type and four fields; in particular no accepted     *)
(* read has an A or a G in bases 4..79.                                    *)
AcceptedPrefixCanonical ==
    (pfx_pc = "read_parsed" /\ pfx_info.some) =>
        /\ Slice(pfx_out, 0, PrefixLen)
               = _create_prefix(pfx_info.chunk_idx, pfx_info.total_chunks, pfx_info.seq_type,
                                pfx_info.seq_idx, pfx_info.total_seqs).val
        /\ \A p \in 5..PrefixLen : pfx_out[p] \notin {"A", "G"}

----------------------------------------------------------------------------
(* Properties of the consensus of replicates                               *)

(* The number of reads equal to r.                                         *)
Replicates(reads, r) == Cardinality({k \in 1..Len(reads) : reads[k] = r})

(* C23 -- majority of identical replicates wins: when strictly more than   *)
(* half of the reads passed to _consensus are the same string r, the       *)
(* result is r, whatever the content and the length of the other reads.    *)
MajorityWins ==
    pfx_pc \in {"consensus", "consensus_again"} =>
        \A k \in 1..Len(pfx_in.reads) :
            2 * Replicates(pfx_in.reads, pfx_in.reads[k]) > Len(pfx_in.reads)
                => /\ pfx_out = pfx_in.reads[k]
                   /\ pfx_pc = "consensus_again" => pfx_info = pfx_in.reads[k]

----------------------------------------------------------------------------
(* src/dags/dna_oligos_pipeline.py: the circuit breaker of the pipeline    *)
(* tasks, under every sequence of calls.  pfx_in is the CircuitBreaker     *)
(* object, pfx_pc the last call made on it, pfx_out what can_execute       *)
(* returned (empty after the calls that return nothing), pfx_info the      *)
(* clock that time.time() reads.                                           *)

CLOSED == "closed"
OPEN == "open"
HALF_OPEN == "half_open"

Some(x) == [some |-> TRUE, val |-> x]

CircuitBreakerConfig(failure_threshold, timeout, success_threshold) ==
    [failure_threshold |-> failure_threshold, timeout |-> timeout,
     success_threshold |-> success_threshold]

(* CircuitBreaker.__init__                                                 *)
CircuitBreaker(config) ==
    [config |-> config, state |-> CLOSED, failure_count |-> 0, success_count |-> 0,
     last_failure_time |-> None]

(* now is the value of time.time() at the call.                            *)
_should_attempt_reset(self, now) ==
    IF ~self.last_failure_time.some THEN TRUE
    ELSE now - self.last_failure_time.val >= self.config.timeout

(* can_execute: the object after the call and the value returned.          *)
can_execute(self, now) ==
    IF self.state = CLOSED THEN [self |-> self, ret |-> TRUE]
    ELSE IF self.state = OPEN
    THEN IF _should_attempt_reset(self, now)
         THEN [self |-> [self EXCEPT !.state = HALF_OPEN], ret |-> TRUE]
         ELSE [self |-> self, ret |-> FALSE]
    ELSE IF self.state = HALF_OPEN THEN [self |-> self, ret |-> TRUE]
    ELSE [self |-> self, ret |-> FALSE]

record_success(self) ==
    IF self.state # HALF_OPEN THEN self
    ELSE IF self.success_count + 1 >= self.config.success_threshold
    THEN [self EXCEPT !.state = CLOSED, !.failure_count = 0, !.success_count = 0]
    ELSE [self EXCEPT !.success_count = @ + 1]

record_failure(self, now) ==
    IF self.state = CLOSED /\ self.failure_count + 1 >= self.config.failure_threshold
    THEN [self EXCEPT !.failure_count = @ + 1, !.last_failure_time = Some(now), !.state = OPEN]
    ELSE [self EXCEPT !.failure_count = @ + 1, !.last_failure_time = Some(now)]

(* The clock stops at MaxClock and failure_count at MaxFailureCount.       *)
MaxClock == 6
MaxFailureCount == 4

(* Thresholds of one and two calls, a timeout of two ticks.                *)
BreakerConfigs ==
    {CircuitBreakerConfig(f, 2, s) : f \in {1, 2}, s \in {1, 2}}

BreakerInit ==
    /\ pfx_pc = "__init__"
    /\ pfx_in \in {CircuitBreaker(config) : config \in BreakerConfigs}
    /\ pfx_out = <<>>
    /\ pfx_info = [now |-> 0]
    /\ CodecIdle

CanExecute ==
    /\ pfx_pc' = "can_execute"
    /\ pfx_in' = can_execute(pfx_in, pfx_info.now).self
    /\ pfx_out' = <<can_execute(pfx_in, pfx_info.now).ret>>
    /\ UNCHANGED pfx_info
    /\ UNCHANGED codec_vars

RecordSuccess ==
    /\ pfx_pc' = "record_success"
    /\ pfx_in' = record_success(pfx_in)
    /\ pfx_out' = <<>>
    /\ UNCHANGED pfx_info
    /\ UNCHANGED codec_vars

RecordFailure ==
    /\ pfx_in.failure_count < MaxFailureCount
    /\ pfx_pc' = "record_failure"
    /\ pfx_in' = record_failure(pfx_in, pfx_info.now)
    /\ pfx_out' = <<>>
    /\ UNCHANGED pfx_info
    /\ UNCHANGED codec_vars

(* Time passes between two calls.                                          *)
Tick ==
    /\ pfx_info.now < MaxClock
    /\ pfx_info' = [now |-> pfx_info.now + 1]
    /\ UNCHANGED <<pfx_pc, pfx_in, pfx_out>>
    /\ UNCHANGED codec_vars

BreakerNext == CanExecute \/ RecordSuccess \/ RecordFailure \/ Tick

SpecBreaker == BreakerInit /\ [][BreakerNext]_vars

(* C24 -- circuit breaker re-opens on a failed probe: under every sequence *)
(* of can_execute, record_success and record_failure calls, a              *)
(* record_failure received in HALF_OPEN moves the state back to OPEN, so   *)
(* that can_execute returns False until timeout seconds have passed since  *)
(* that failure; the state returns to CLOSED only by a record_success in   *)
(* HALF_OPEN that completes success_threshold successes.                   *)
FailedProbeReopens ==
    [][/\ (pfx_pc' = "record_failure" /\ pfx_in' # pfx_in /\ pfx_in.state = HALF_OPEN) =>
              /\ pfx_in'.state = OPEN
              /\ \A t \in pfx_info.now..(pfx_info.now + pfx_in.config.timeout - 1) :
                     ~can_execute(pfx_in', t).ret
       /\ (pfx_in.state # CLOSED /\ pfx_in'.state = CLOSED) =>
              /\ pfx_pc' = "record_success"
              /\ pfx_in.state = HALF_OPEN
              /\ pfx_in.success_count + 1 >= pfx_in.config.success_threshold]_vars

=============================================================================
